---- MODULE Spec2Model ----
(***************************************************************************)
(* Support/resistance level detection of analysis_service/analyzer.py      *)
(* (class MarketAnalyzer), as a state machine.                             *)
(*                                                                         *)
(* Numbers.  Prices and volumes of candles are integers (ticks).  Every    *)
(* derived float of the program is an exact rational <<num, den>> in       *)
(* lowest terms with den > 0, so that equalities and orderings of the      *)
(* model are those of real arithmetic; the two places where the program's  *)
(* IEEE arithmetic leaves the reals are modelled as such: a numpy 0/0 is   *)
(* the value NaN (every comparison with it is FALSE) and a Python float    *)
(* division by zero raises.  The rolling standard deviation (a square      *)
(* root) is rounded down to 1/StdQuantum of a tick.                        *)
(***************************************************************************)
EXTENDS Integers, Sequences, FiniteSets, TLC

VARIABLES
    top_n_levels,   \* MarketAnalyzer.top_n_levels (instance field)
    pc,             \* position of the invocation of analyze_support_resistance
    df,             \* the candle frame passed to the invocation
    timeframe,      \* the timeframe passed to the invocation
    cand,           \* [s, r]: support_candidates, resistance_candidates
    lev,            \* [s, r]: the level lists of the two sides (top_*, validated_*, *_with_tech)
    result,         \* what the invocation returned: [supports, resistances] or the error raised
    trace,          \* the stages the invocation has run, in order
    ref,            \* an earlier invocation kept for comparison: [df, timeframe, result, later]
    probe,          \* the last direct application of one of the analyzer's functions
    other,          \* a second invocation in flight on the same instance, with its own locals
    fetch,          \* the call of fetch_klines in flight: position, batches, retries, client
    coord,          \* a run of run_market_analysis: tasks, semaphore, statistics, sessions
    sched           \* the service: lifespan position, scheduler, runs in progress

vars == <<top_n_levels, pc, df, timeframe, cand, lev, result, trace, ref, probe, other, fetch, coord, sched>>

\* the variables of the analysis itself
analysisVars == <<top_n_levels, pc, df, timeframe, cand, lev, result, trace, ref, probe, other>>

-----------------------------------------------------------------------------
(* Exact rationals *)

Abs(x) == IF x < 0 THEN -x ELSE x

Min(a, b) == IF a <= b THEN a ELSE b

Max(a, b) == IF a >= b THEN a ELSE b

RECURSIVE GCD(_, _)
GCD(a, b) == IF b = 0 THEN a ELSE GCD(b, a % b)

\* n/d in lowest terms, d # 0
Rat(n, d) ==
    LET g == GCD(Abs(n), Abs(d))
        s == IF d < 0 THEN -1 ELSE 1
    IN  <<s * (n \div g), s * (d \div g)>>

RInt(k) == <<k, 1>>

RAdd(a, b) ==
    LET g == GCD(a[2], b[2])
    IN  Rat(a[1] * (b[2] \div g) + b[1] * (a[2] \div g), a[2] * (b[2] \div g))

RNeg(a) == <<-a[1], a[2]>>

RSub(a, b) == RAdd(a, RNeg(b))

RMul(a, b) ==
    LET g1 == GCD(Abs(a[1]), b[2])
        g2 == GCD(Abs(b[1]), a[2])
    IN  Rat((a[1] \div g1) * (b[1] \div g2), (a[2] \div g2) * (b[2] \div g1))

\* a / b, b # 0
RDiv(a, b) == RMul(a, IF b[1] < 0 THEN <<-b[2], -b[1]>> ELSE <<b[2], b[1]>>)

RAbs(a) == <<Abs(a[1]), a[2]>>

\* a < b without forming the cross products (which overflow TLC's integers):
\* compare the integer parts, then the reciprocals of the fractional parts.
RECURSIVE RLessPos(_, _, _, _)
RLessPos(an, ad, bn, bd) ==
    LET qa == an \div ad
        qb == bn \div bd
        ra == an % ad
        rb == bn % bd
    IN  IF qa # qb THEN qa < qb
        ELSE IF rb = 0 THEN FALSE
        ELSE IF ra = 0 THEN TRUE
        ELSE RLessPos(bd, rb, ad, ra)

RLess(a, b) ==
    IF a[1] < 0 /\ b[1] >= 0 THEN TRUE
    ELSE IF a[1] >= 0 /\ b[1] < 0 THEN FALSE
    ELSE IF a[1] < 0 THEN RLessPos(-b[1], b[2], -a[1], a[2])
    ELSE RLessPos(a[1], a[2], b[1], b[2])

RLeq(a, b) == ~RLess(b, a)

RMax(a, b) == IF RLess(a, b) THEN b ELSE a

\* int(x) of Python: truncation toward zero
RTrunc(a) == IF a[1] >= 0 THEN a[1] \div a[2] ELSE -((-a[1]) \div a[2])

-----------------------------------------------------------------------------
(* Generic sequence helpers *)

RECURSIVE SumRange(_, _, _)
SumRange(s, lo, hi) ==
    IF lo > hi THEN 0
    ELSE IF lo = hi THEN s[lo]
    ELSE LET mid == (lo + hi) \div 2
         IN  SumRange(s, lo, mid) + SumRange(s, mid + 1, hi)

SumSeq(s) == SumRange(s, 1, Len(s))

RECURSIVE RSumRange(_, _, _)
RSumRange(s, lo, hi) ==
    IF lo > hi THEN <<0, 1>>
    ELSE IF lo = hi THEN s[lo]
    ELSE LET mid == (lo + hi) \div 2
         IN  RAdd(RSumRange(s, lo, mid), RSumRange(s, mid + 1, hi))

RSumSeq(s) == RSumRange(s, 1, Len(s))

\* the elements of a set of integers in increasing order
SortedSeq(S) ==
    [k \in 1..Cardinality(S) |-> CHOOSE x \in S : Cardinality({y \in S : y < x}) = k - 1]

RECURSIVE Concat(_)
Concat(ss) == IF ss = <<>> THEN <<>> ELSE Head(ss) \o Concat(Tail(ss))

Take(s, k) == SubSeq(s, 1, Min(k, Len(s)))

-----------------------------------------------------------------------------
(* Timeframes and windows *)

\* A timeframe string such as "15m" is its digits and its last character.
TF(value, unit) == [value |-> value, unit |-> unit]

\* multipliers.get(unit, 1): an unit that is not a key gets the default 1
multipliers(unit) ==
    CASE unit = "m" -> <<1, 60>>
      [] unit = "h" -> <<1, 1>>
      [] unit = "d" -> <<24, 1>>
      [] unit = "w" -> <<168, 1>>
      [] OTHER      -> <<1, 1>>

timeframe_to_hours(tf) == RMul(RInt(tf.value), multipliers(tf.unit))

base_windows_hours == <<5, 12, 24, 48, 72>>

MinWindow == 3

MaxWindowDivisor == 10

FallbackWindow == 5

FallbackDivisor == 20

\* get_dynamic_windows without the cap of a tenth of the data length
get_dynamic_windows_uncapped(tf, data_length) ==
    LET timeframe_hours == timeframe_to_hours(tf)
        conv(w) == Max(MinWindow, RTrunc(RDiv(RInt(w), timeframe_hours)))
    IN  [k \in 1..Len(base_windows_hours) |-> conv(base_windows_hours[k])]

get_dynamic_windows(tf, data_length) ==
    LET timeframe_hours == timeframe_to_hours(tf)
        conv(w) == Max(MinWindow, RTrunc(RDiv(RInt(w), timeframe_hours)))
        windows == [k \in 1..Len(base_windows_hours) |-> conv(base_windows_hours[k])]
        max_window == data_length \div MaxWindowDivisor
        keep(w) == MinWindow <= w /\ w <= max_window
        kept == SelectSeq(windows, keep)
    IN  IF kept = <<>>
        THEN <<Min(FallbackWindow, data_length \div FallbackDivisor)>>
        ELSE kept

-----------------------------------------------------------------------------
(* Candle frames.  A frame is a sequence of candles [high, low, close,      *)
(* volume]; position p of the program (0-based) is element p + 1.           *)

Candle(h, l, c, v) == [high |-> h, low |-> l, close |-> c, volume |-> v]

BasePrice == 1000

Period == 8

Wick == 1

DropTicks == 150

DriftStep == 2

MaxDrift == 2

MaxAmp == 2

\* the zigzag's step: 5 ticks (one cluster per side), 30 ticks, ...
Amp(a) == 5 + 25 * (a - 1)

Tri(k) == IF 2 * k <= Period THEN k ELSE Period - k

\* The frames the environment passes: a zigzag of period Period and step amp
\* that drifts upward by drift ticks per period, whose last candle either
\* follows the zigzag ("none"), gaps down by DropTicks ("drop") or closes at
\* zero ("zero"), with volumes all zero ("zero"), all equal ("flat") or
\* higher on the zigzag's lows ("spiky").
MakeFrame(n, amp, drift, tail, vol) ==
    [i \in 1..n |->
        LET p == i - 1
            c0 == BasePrice + amp * Tri(p % Period) + drift * (p \div Period)
            c == IF i = n /\ tail = "drop" THEN BasePrice - DropTicks
                 ELSE IF i = n /\ tail = "zero" THEN 0
                 ELSE c0
            v == CASE vol = "zero" -> 0
                   [] vol = "flat" -> 2
                   [] OTHER -> IF p % Period = 0 THEN 3 ELSE 1
        IN  Candle(c + Wick, IF c = 0 THEN 0 ELSE c - Wick, c, v)]

MinCandles == 50

Lengths == {0, MinCandles - 1, MinCandles}

Tails == {"none", "drop", "zero"}

Vols == {"zero", "flat", "spiky"}

Frames ==
    {MakeFrame(n, Amp(a), DriftStep * d, t, v) :
        n \in Lengths, a \in 1..MaxAmp, d \in 0..MaxDrift, t \in Tails, v \in Vols}

TimeFrames == {TF(15, "m"), TF(1, "h"), TF(3, "h"), TF(1, "d"), TF(1, "x")}


-----------------------------------------------------------------------------
(* Floats that may leave the reals: a score is a rational, NaN or +Inf *)

Num(r) == [k |-> "num", v |-> r]

NaN == [k |-> "nan", v |-> <<0, 1>>]

Inf == [k |-> "inf", v |-> <<0, 1>>]

\* numpy float64 division: x / 0 warns and yields NaN (0/0) or Inf (x > 0)
NpDiv(a, b) ==
    IF b[1] = 0 THEN (IF a[1] = 0 THEN NaN ELSE Inf) ELSE Num(RDiv(a, b))

FAdd(x, r) == IF x.k = "num" THEN Num(RAdd(x.v, r)) ELSE x

FMul(x, r) == IF x.k = "num" THEN Num(RMul(x.v, r)) ELSE x

\* x < y of IEEE 754: FALSE whenever an operand is NaN
FLess(x, y) ==
    IF x.k = "nan" \/ y.k = "nan" THEN FALSE
    ELSE IF x.k = "inf" THEN FALSE
    ELSE IF y.k = "inf" THEN TRUE
    ELSE RLess(x.v, y.v)

FGeq(x, y) ==
    IF x.k = "nan" \/ y.k = "nan" THEN FALSE
    ELSE IF x.k = "inf" THEN TRUE
    ELSE IF y.k = "inf" THEN FALSE
    ELSE RLeq(y.v, x.v)

IsFinite(x) == x.k = "num"

-----------------------------------------------------------------------------
(* list.sort(key=lambda x: x['score'], reverse=True): the list is reversed, *)
(* sorted ascending by a stable insertion sort that asks only x < y, and    *)
(* reversed again.                                                          *)

Reverse(s) == [i \in 1..Len(s) |-> s[Len(s) + 1 - i]]

RECURSIVE InsertPos(_, _, _)
InsertPos(sorted, x, j) ==
    IF j = 0 THEN 0
    ELSE IF FLess(x.score, sorted[j].score) THEN InsertPos(sorted, x, j - 1)
    ELSE j

InsertAsc(sorted, x) ==
    LET j == InsertPos(sorted, x, Len(sorted))
    IN  SubSeq(sorted, 1, j) \o <<x>> \o SubSeq(sorted, j + 1, Len(sorted))

RECURSIVE SortAsc(_, _, _)
SortAsc(s, i, acc) ==
    IF i > Len(s) THEN acc ELSE SortAsc(s, i + 1, InsertAsc(acc, s[i]))

sort_by_score_desc(levels) == Reverse(SortAsc(Reverse(levels), 1, <<>>))

-----------------------------------------------------------------------------
(* Step 1: local extrema (scipy.signal.argrelextrema, mode = 'clip') *)

\* data[p] compared with data[p + shift] and data[p - shift] for every shift
\* in 1..order, the shifted positions clipped into 0..n-1
IsRelExtremum(data, p, order, less) ==
    LET n == Len(data)
        at(q) == data[Min(n - 1, Max(0, q)) + 1]
        cmp(a, b) == IF less THEN a < b ELSE a > b
    IN  \A shift \in 1..order :
            cmp(at(p), at(p + shift)) /\ cmp(at(p), at(p - shift))

argrelextrema(data, order, less) ==
    LET hit(p) == IsRelExtremum(data, p, order, less)
    IN  SelectSeq([i \in 1..Len(data) |-> i - 1], hit)

find_local_extrema(frame, tf, is_support) ==
    LET windows == get_dynamic_windows(tf, Len(frame))
        data == [i \in 1..Len(frame) |->
                    IF is_support THEN frame[i].low ELSE frame[i].high]
        ofWindow(k) ==
            LET indices == argrelextrema(data, windows[k], is_support)
            IN  [j \in 1..Len(indices) |->
                    [price |-> data[indices[j] + 1],
                     volume |-> frame[indices[j] + 1].volume,
                     index |-> indices[j],
                     window |-> windows[k]]]
    IN  Concat([k \in 1..Len(windows) |-> ofWindow(k)])

-----------------------------------------------------------------------------
(* Step 2: clustering (sklearn.cluster.DBSCAN, min_samples = 2) and scoring *)

\* |p - q| <= eps with eps = |current_price| * 0.003
WithinEps(p, q, current_price) == 1000 * Abs(p - q) <= 3 * Abs(current_price)

RECURSIVE Reach(_, _, _)
Reach(prices, current_price, S) ==
    LET T == S \cup {j \in 1..Len(prices) :
                        \E i \in S : WithinEps(prices[i], prices[j], current_price)}
    IN  IF T = S THEN S ELSE Reach(prices, current_price, T)

SetMin(S) == CHOOSE x \in S : \A y \in S : x <= y

SetMax(S) == CHOOSE x \in S : \A y \in S : x >= y

\* cluster_prices_dbscan with eps taken from the mean of the prices clustered
\* instead of the current price
cluster_prices_dbscan_mean_eps(prices, current_price) ==
    LET idx == 1..Len(prices)
        total == SumSeq(prices)
        near(p, q) == 1000 * Abs(p - q) * Len(prices) <= 3 * Abs(total)
        adj == [i \in idx |-> {j \in idx : near(prices[i], prices[j])}]
        grow[k \in 0..Len(prices)] ==
            [i \in idx |-> IF k = 0 THEN {i}
                           ELSE UNION {adj[j] : j \in grow[k - 1][i]}]
        comp == grow[Len(prices)]
        core(i) == \E j \in idx : j # i /\ near(prices[i], prices[j])
        first == [i \in idx |-> SetMin(comp[i])]
        firsts == {first[i] : i \in {j \in idx : core(j)}}
    IN  [i \in idx |->
            IF core(i) THEN Cardinality({f \in firsts : f < first[i]}) ELSE -1]

\* cluster_prices_dbscan with neighbourhoods of radius strictly less than eps
cluster_prices_dbscan_strict_eps(prices, current_price) ==
    LET idx == 1..Len(prices)
        near(p, q) == 1000 * Abs(p - q) < 3 * Abs(current_price)
        adj == [i \in idx |-> {j \in idx : near(prices[i], prices[j])}]
        grow[k \in 0..Len(prices)] ==
            [i \in idx |-> IF k = 0 THEN {i}
                           ELSE UNION {adj[j] : j \in grow[k - 1][i]}]
        comp == grow[Len(prices)]
        core(i) == \E j \in idx : j # i /\ near(prices[i], prices[j])
        first == [i \in idx |-> SetMin(comp[i])]
        firsts == {first[i] : i \in {j \in idx : core(j)}}
    IN  [i \in idx |->
            IF core(i) THEN Cardinality({f \in firsts : f < first[i]}) ELSE -1]

\* The label of every price: -1 for a price with no other price within eps
\* (not a core point, and no core point's neighbour), else the number of its
\* cluster, clusters numbered in the order of their first member.
cluster_prices_dbscan(prices, current_price) ==
    LET idx == 1..Len(prices)
        core(i) == \E j \in idx : j # i /\ WithinEps(prices[i], prices[j], current_price)
        first == [i \in idx |-> SetMin(Reach(prices, current_price, {i}))]
        firsts == {first[i] : i \in {j \in idx : core(j)}}
    IN  [i \in idx |->
            IF core(i) THEN Cardinality({f \in firsts : f < first[i]}) ELSE -1]

\* calculate_time_decay_factor with the position normalised by the length
\* instead of the last index
calculate_time_decay_factor_by_length(index, total_length) ==
    LET normalized_position ==
            IF total_length > 1 THEN Rat(index, total_length) ELSE <<1, 1>>
    IN  RAdd(<<3, 10>>, RMul(<<7, 10>>, normalized_position))

\* 0.3 + 0.7 * index / (total_length - 1), and 1.0 for a frame of one candle
calculate_time_decay_factor(index, total_length) ==
    LET normalized_position ==
            IF total_length > 1 THEN Rat(index, total_length - 1) ELSE <<1, 1>>
    IN  RAdd(<<3, 10>>, RMul(<<7, 10>>, normalized_position))

\* GroupByLabel that skips the candidates labelled noise
GroupByLabel_DropNoise(candidates, labels) ==
    LET idx == {i \in 1..Len(candidates) : labels[i] # -1}
        firsts == SortedSeq({i \in idx : \A j \in 1..(i - 1) : labels[j] # labels[i]})
    IN  [g \in 1..Len(firsts) |->
            LET same(i) == labels[i] = labels[firsts[g]]
                members == SelectSeq([i \in 1..Len(candidates) |-> i], same)
            IN  [m \in 1..Len(members) |-> candidates[members[m]]]]

\* clusters_dict: a noise point is a group of its own (key noise_<i>), the
\* other candidates are grouped by label; the groups are in the order in
\* which their keys were first inserted, the members in candidate order.
GroupByLabel(candidates, labels) ==
    LET idx == 1..Len(candidates)
        keyOf == [i \in idx |->
                     IF labels[i] = -1 THEN <<"noise", i - 1>> ELSE <<"label", labels[i]>>]
        firsts == SortedSeq({i \in idx : \A j \in 1..(i - 1) : keyOf[j] # keyOf[i]})
    IN  [g \in 1..Len(firsts) |->
            LET same(i) == keyOf[i] = keyOf[firsts[g]]
                members == SelectSeq([i \in idx |-> i], same)
            IN  [m \in 1..Len(members) |-> candidates[members[m]]]]

\* avg_price: the mean of the member prices of a cluster
cluster_centroid(cluster) ==
    Rat(SumSeq([i \in 1..Len(cluster) |-> cluster[i].price]), Len(cluster))

\* The composite score of a cluster from its derived attributes
composite_score(touch_count, cluster_volume, avg_volume, distance_pct, recency_factor, correct_side, unique_windows) ==
    LET touch_score == RInt(touch_count * 3)
        volume_score == FMul(NpDiv(cluster_volume, avg_volume), <<2, 1>>)
        distance_score ==
            IF RLeq(<<1, 100>>, distance_pct) /\ RLeq(distance_pct, <<1, 10>>)
            THEN RMul(<<5, 2>>, recency_factor)
            ELSE IF RLess(distance_pct, <<1, 100>>)
            THEN RMul(<<2, 1>>, recency_factor)
            ELSE RMul(RMax(<<1, 5>>,
                           RSub(<<2, 1>>, RMul(RSub(distance_pct, <<1, 10>>), <<5, 1>>))),
                      recency_factor)
        direction_score == IF correct_side THEN <<2, 1>> ELSE <<1, 2>>
        window_diversity_score == Rat(unique_windows, 2)
    IN  FAdd(FAdd(FAdd(FAdd(volume_score, touch_score), distance_score),
                  direction_score), window_diversity_score)

\* score_cluster with the weighted volume divided by the number of members
\* instead of the total weight
score_cluster_by_count(cluster, frame, current_price, is_support) ==
    LET total_length == Len(frame)
        avg_volume == Rat(SumSeq([i \in 1..total_length |-> frame[i].volume]), total_length)
        touch_count == Len(cluster)
        avg_price == cluster_centroid(cluster)
        decay == [i \in 1..touch_count |->
                     calculate_time_decay_factor(cluster[i].index, total_length)]
        weighted_volume == RSumSeq([i \in 1..touch_count |->
                                       RMul(RInt(cluster[i].volume), decay[i])])
        cluster_volume ==
            IF touch_count > 0 THEN RDiv(weighted_volume, RInt(touch_count))
            ELSE avg_volume
        distance_pct == RDiv(RAbs(RSub(avg_price, RInt(current_price))),
                             RInt(Abs(current_price)))
        latest_index == SetMax({cluster[i].index : i \in 1..touch_count})
        recency_factor == calculate_time_decay_factor(latest_index, total_length)
        correct_side ==
            IF is_support THEN RLess(avg_price, RInt(current_price))
            ELSE RLess(RInt(current_price), avg_price)
        unique_windows == Cardinality({cluster[i].window : i \in 1..touch_count})
    IN  [price |-> avg_price,
         score |-> composite_score(touch_count, cluster_volume, avg_volume, distance_pct,
                                   recency_factor, correct_side, unique_windows),
         source |-> "extrema",
         touch_count |-> touch_count,
         volume |-> cluster_volume,
         distance_pct |-> Num(RMul(distance_pct, <<100, 1>>)),
         recency_factor |-> recency_factor,
         latest_index |-> latest_index]

score_cluster(cluster, frame, current_price, is_support) ==
    LET total_length == Len(frame)
        avg_volume == Rat(SumSeq([i \in 1..total_length |-> frame[i].volume]), total_length)
        touch_count == Len(cluster)
        avg_price == cluster_centroid(cluster)
        decay == [i \in 1..touch_count |->
                     calculate_time_decay_factor(cluster[i].index, total_length)]
        weighted_volume == RSumSeq([i \in 1..touch_count |->
                                       RMul(RInt(cluster[i].volume), decay[i])])
        total_weight == RSumSeq(decay)
        cluster_volume ==
            IF RLess(<<0, 1>>, total_weight) THEN RDiv(weighted_volume, total_weight)
            ELSE avg_volume
        distance_pct == RDiv(RAbs(RSub(avg_price, RInt(current_price))),
                             RInt(Abs(current_price)))
        latest_index == SetMax({cluster[i].index : i \in 1..touch_count})
        recency_factor == calculate_time_decay_factor(latest_index, total_length)
        correct_side ==
            IF is_support THEN RLess(avg_price, RInt(current_price))
            ELSE RLess(RInt(current_price), avg_price)
        unique_windows == Cardinality({cluster[i].window : i \in 1..touch_count})
    IN  [price |-> avg_price,
         score |-> composite_score(touch_count, cluster_volume, avg_volume, distance_pct,
                                   recency_factor, correct_side, unique_windows),
         source |-> "extrema",
         touch_count |-> touch_count,
         volume |-> cluster_volume,
         distance_pct |-> Num(RMul(distance_pct, <<100, 1>>)),
         recency_factor |-> recency_factor,
         latest_index |-> latest_index]

\* Raises when current_price = 0 (DBSCAN refuses eps = 0, and the distance is
\* a Python float division by zero); callers test CanCluster first.
cluster_and_rank_advanced(candidates, frame, current_price, is_support) ==
    IF candidates = <<>> THEN <<>>
    ELSE LET prices == [i \in 1..Len(candidates) |-> candidates[i].price]
             labels == cluster_prices_dbscan(prices, current_price)
             groups == GroupByLabel(candidates, labels)
             scored_levels == [g \in 1..Len(groups) |->
                                  score_cluster(groups[g], frame,
                                                current_price, is_support)]
         IN  sort_by_score_desc(scored_levels)


-----------------------------------------------------------------------------
(* Step 3: strength validation *)

\* validation_counts with the bounce test outside the touch test: a bounce is
\* counted on every candle whose next close moves favourably
validation_counts_loose(level_price, frame, is_support) ==
    LET n == Len(frame)
        tolerance == RMul(RAbs(level_price), <<1, 100>>)
        touched(i) ==
            RLeq(RAbs(RSub(RInt(IF is_support THEN frame[i].low ELSE frame[i].high),
                           level_price)),
                 tolerance)
        bounced(i) ==
            IF is_support THEN frame[i + 1].close > frame[i].close
            ELSE frame[i + 1].close < frame[i].close
        broke(i) ==
            IF is_support
            THEN RLess(RInt(frame[i + 1].low), RSub(level_price, tolerance))
            ELSE RLess(RAdd(level_price, tolerance), RInt(frame[i + 1].high))
        touchSet == {i \in 1..(n - 1) : touched(i)}
        touches == Cardinality(touchSet)
        bounces == Cardinality({i \in 1..(n - 1) : bounced(i)})
        breaks == Cardinality({i \in touchSet : broke(i)})
        bounce_rate == IF touches > 0 THEN Rat(bounces, touches) ELSE <<0, 1>>
        break_rate == IF touches > 0 THEN Rat(breaks, touches) ELSE <<0, 1>>
    IN  [touches |-> touches, bounces |-> bounces, breaks |-> breaks,
         bounce_rate |-> bounce_rate, break_rate |-> break_rate,
         strength |-> RSub(bounce_rate, break_rate)]

\* The locals of one turn of the loop over levels: the counts over the candles
\* of range(len(df) - 1), here elements 1..n-1, and the three rates.
validation_counts(level_price, frame, is_support) ==
    LET n == Len(frame)
        tolerance == RMul(RAbs(level_price), <<1, 100>>)
        touched(i) ==
            RLeq(RAbs(RSub(RInt(IF is_support THEN frame[i].low ELSE frame[i].high),
                           level_price)),
                 tolerance)
        bounced(i) ==
            IF is_support THEN frame[i + 1].close > frame[i].close
            ELSE frame[i + 1].close < frame[i].close
        broke(i) ==
            IF is_support
            THEN RLess(RInt(frame[i + 1].low), RSub(level_price, tolerance))
            ELSE RLess(RAdd(level_price, tolerance), RInt(frame[i + 1].high))
        touchSet == {i \in 1..(n - 1) : touched(i)}
        touches == Cardinality(touchSet)
        bounces == Cardinality({i \in touchSet : bounced(i)})
        breaks == Cardinality({i \in touchSet : broke(i)})
        bounce_rate == IF touches > 0 THEN Rat(bounces, touches) ELSE <<0, 1>>
        break_rate == IF touches > 0 THEN Rat(breaks, touches) ELSE <<0, 1>>
    IN  [touches |-> touches, bounces |-> bounces, breaks |-> breaks,
         bounce_rate |-> bounce_rate, break_rate |-> break_rate,
         strength |-> RSub(bounce_rate, break_rate)]

\* The level as the loop leaves it; break_rate is a local and is not stored.
validate_level(level, frame, is_support) ==
    LET v == validation_counts(level.price, frame, is_support)
        strength_bonus == RMul(v.strength, <<2, 1>>)
    IN  [price |-> level.price,
         score |-> FAdd(level.score, strength_bonus),
         source |-> level.source,
         touch_count |-> level.touch_count,
         volume |-> level.volume,
         distance_pct |-> level.distance_pct,
         recency_factor |-> level.recency_factor,
         latest_index |-> level.latest_index,
         original_score |-> level.score,
         touches |-> v.touches,
         bounces |-> v.bounces,
         breaks |-> v.breaks,
         bounce_rate |-> v.bounce_rate,
         strength |-> v.strength]

validate_levels(levels, frame, is_support) ==
    sort_by_score_desc([k \in 1..Len(levels) |-> validate_level(levels[k], frame, is_support)])

-----------------------------------------------------------------------------
(* Step 4: technical levels *)

StdQuantum == 10

RECURSIVE ISqrtIn(_, _, _)
ISqrtIn(x, lo, hi) ==
    IF lo >= hi THEN lo
    ELSE LET mid == (lo + hi + 1) \div 2
         IN  IF mid <= x \div mid THEN ISqrtIn(x, mid, hi) ELSE ISqrtIn(x, lo, mid - 1)

\* the largest r with r * r <= x
ISqrt(x) == IF x <= 0 THEN 0 ELSE ISqrtIn(x, 1, Min(x, 46340))

BollingerWindow == 20

\* [ma, two_std] of close.rolling(20) at the last candle: the mean, and twice
\* the sample standard deviation (ddof = 1), rounded down to 1/StdQuantum
Bollinger(frame) ==
    LET n == Len(frame)
        w == BollingerWindow
        x == [i \in 1..w |-> frame[n - w + i].close]
        sum == SumSeq(x)
        shift == sum \div w
        d == [i \in 1..w |-> x[i] - shift]
        \* w * (w - 1) * variance
        vnum == w * SumSeq([i \in 1..w |-> d[i] * d[i]]) - SumSeq(d) * SumSeq(d)
        \* (2 * std)^2 = 4 * vnum / (w * (w - 1))
        \* floor(4 * vnum * StdQuantum^2 / (w * (w - 1))), in two parts to stay
        \* within the integers of the checker
        q2 == StdQuantum * StdQuantum
        scaled == ((4 * vnum) \div (w * (w - 1))) * q2
                      + (((4 * vnum) % (w * (w - 1))) * q2) \div (w * (w - 1))
        two_std == Rat(ISqrt(scaled), StdQuantum)
    IN  [ma |-> Rat(sum, w), two_std |-> two_std]

\* is_duplicate that compares with the empirical levels only, not with the
\* technical levels appended before
is_duplicate_empirical_only(price, existing_levels) ==
    \E k \in 1..Len(existing_levels) :
        /\ existing_levels[k].source = "extrema"
        /\ RLess(RMul(RAbs(RSub(price, existing_levels[k].price)), <<1000, 1>>),
                 RMul(RAbs(price), <<5, 1>>))

\* abs(price - level['price']) / abs(price) < 0.005 for some existing level
is_duplicate(price, existing_levels) ==
    \E k \in 1..Len(existing_levels) :
        RLess(RMul(RAbs(RSub(price, existing_levels[k].price)), <<1000, 1>>),
              RMul(RAbs(price), <<5, 1>>))

tech_level(price, score, source, current_price) ==
    [price |-> price,
     score |-> Num(RInt(score)),
     source |-> source,
     touch_count |-> 1,
     volume |-> <<0, 1>>,
     distance_pct |-> FMul(NpDiv(RAbs(RSub(price, RInt(current_price))),
                                 RInt(Abs(current_price))), <<100, 1>>)]

BollingerScore == 5

FibScore == 4

fib_ratios == <<236, 382, 500, 618, 786>>

fib_names == <<"Fib_23.6", "Fib_38.2", "Fib_50.0", "Fib_61.8", "Fib_78.6">>

\* add_bollinger without the comparison of a band with the current price
add_bollinger_unsided(frame, sides, current_price) ==
    IF Len(frame) >= BollingerWindow
    THEN LET b == Bollinger(frame)
             current_upper == RAdd(b.ma, b.two_std)
             current_lower == RSub(b.ma, b.two_std)
             r1 == IF ~is_duplicate(current_upper, sides.r)
                   THEN Append(sides.r, tech_level(current_upper, BollingerScore,
                                                   "Bollinger_Upper", current_price))
                   ELSE sides.r
             s1 == IF ~is_duplicate(current_lower, sides.s)
                   THEN Append(sides.s, tech_level(current_lower, BollingerScore,
                                                   "Bollinger_Lower", current_price))
                   ELSE sides.s
         IN  [s |-> s1, r |-> r1]
    ELSE sides

add_bollinger(frame, sides, current_price) ==
    IF Len(frame) >= BollingerWindow
    THEN LET b == Bollinger(frame)
             current_upper == RAdd(b.ma, b.two_std)
             current_lower == RSub(b.ma, b.two_std)
             r1 == IF RLess(RInt(current_price), current_upper)
                      /\ ~is_duplicate(current_upper, sides.r)
                   THEN Append(sides.r, tech_level(current_upper, BollingerScore,
                                                   "Bollinger_Upper", current_price))
                   ELSE sides.r
             s1 == IF RLess(current_lower, RInt(current_price))
                      /\ ~is_duplicate(current_lower, sides.s)
                   THEN Append(sides.s, tech_level(current_lower, BollingerScore,
                                                   "Bollinger_Lower", current_price))
                   ELSE sides.s
         IN  [s |-> s1, r |-> r1]
    ELSE sides

\* The band step divides Python floats: abs(price - ...) / abs(price) in
\* is_duplicate and ... / abs(current_price) in the appended record raise
\* ZeroDivisionError on a zero divisor.
add_bollinger_raises(frame, sides, current_price) ==
    /\ Len(frame) >= BollingerWindow
    /\ LET b == Bollinger(frame)
           current_upper == RAdd(b.ma, b.two_std)
           current_lower == RSub(b.ma, b.two_std)
           bad(price, existing) ==
               \/ price[1] = 0 /\ existing # <<>>
               \/ price[1] # 0 /\ ~is_duplicate(price, existing) /\ current_price = 0
       IN  \/ RLess(RInt(current_price), current_upper) /\ bad(current_upper, sides.r)
           \/ RLess(current_lower, RInt(current_price)) /\ bad(current_lower, sides.s)

RECURSIVE add_fibonacci(_, _, _, _)
add_fibonacci(frame, sides, current_price, k) ==
    IF k > Len(fib_ratios) THEN sides
    ELSE LET high == SetMax({frame[i].high : i \in 1..Len(frame)})
             low == SetMin({frame[i].low : i \in 1..Len(frame)})
             diff == high - low
             fib_price == RAdd(RInt(low), Rat(diff * fib_ratios[k], 1000))
             cur == RInt(current_price)
             next ==
                 IF RLess(fib_price, RMul(cur, <<99, 100>>))
                 THEN IF ~is_duplicate(fib_price, sides.s)
                      THEN [sides EXCEPT !.s = Append(@, tech_level(fib_price, FibScore,
                                                                    fib_names[k], current_price))]
                      ELSE sides
                 ELSE IF RLess(RMul(cur, <<101, 100>>), fib_price)
                 THEN IF ~is_duplicate(fib_price, sides.r)
                      THEN [sides EXCEPT !.r = Append(@, tech_level(fib_price, FibScore,
                                                                    fib_names[k], current_price))]
                      ELSE sides
                 ELSE sides
         IN  add_fibonacci(frame, next, current_price, k + 1)

\* is_duplicate is a local of _add_technical_levels bound by the def inside
\* `if len(df_copy) >= 20`: for a shorter frame the first retracement price
\* beyond 1% of the current price reads it unbound (UnboundLocalError).  Of an
\* empty frame the retracement prices are NaN and are beyond nothing.
add_fibonacci_raises(frame, current_price) ==
    /\ 0 < Len(frame) /\ Len(frame) < BollingerWindow
    /\ LET high == SetMax({frame[i].high : i \in 1..Len(frame)})
           low == SetMin({frame[i].low : i \in 1..Len(frame)})
           fib_price(k) == RAdd(RInt(low), Rat((high - low) * fib_ratios[k], 1000))
           cur == RInt(current_price)
       IN  \E k \in 1..Len(fib_ratios) :
               \/ RLess(fib_price(k), RMul(cur, <<99, 100>>))
               \/ RLess(RMul(cur, <<101, 100>>), fib_price(k))

\* add_technical_levels that first drops the levels on the wrong side of the
\* current price
add_technical_levels_sided(frame, supports, resistances, current_price) ==
    LET below(l) == RLeq(l.price, RInt(current_price))
        above(l) == RLeq(RInt(current_price), l.price)
        withBands == add_bollinger(frame, [s |-> SelectSeq(supports, below),
                                           r |-> SelectSeq(resistances, above)],
                                   current_price)
        withFib == add_fibonacci(frame, withBands, current_price, 1)
    IN  [s |-> sort_by_score_desc(withFib.s), r |-> sort_by_score_desc(withFib.r)]

\* [s, r]: the two lists with the technical levels appended, sorted again
add_technical_levels(frame, supports, resistances, current_price) ==
    LET withBands == add_bollinger(frame, [s |-> supports, r |-> resistances], current_price)
        withFib == add_fibonacci(frame, withBands, current_price, 1)
    IN  [s |-> sort_by_score_desc(withFib.s), r |-> sort_by_score_desc(withFib.r)]


-----------------------------------------------------------------------------
(* The invocation of analyze_support_resistance, stage by stage *)

DefaultTopN == 5

NoResult == [kind |-> "none"]

Returned(supports, resistances) ==
    [kind |-> "ok", supports |-> supports, resistances |-> resistances]

Raised(error) == [kind |-> "raise", error |-> error]

NoRef == [kind |-> "none"]

NoSides == [s |-> <<>>, r |-> <<>>]

NoProbe == [fn |-> "none"]

\* the locals of an invocation that has not started
NoInvocation ==
    [pc |-> "idle", df |-> <<>>, timeframe |-> TF(1, "h"), cand |-> NoSides,
     lev |-> NoSides, result |-> NoResult, trace |-> <<>>, overlap |-> FALSE]

current_price_of(frame) == frame[Len(frame)].close

\* fetch_klines not called yet
IdleFetch ==
    [pc |-> "idle", attempt |-> 0, batch1 |-> <<>>, batch2 |-> <<>>, error |-> "none",
     handler |-> "none", slept |-> FALSE, result |-> <<>>, returned |-> FALSE,
     escaped |-> FALSE, closed |-> 0]

\* config.ANALYSIS_CONCURRENCY (default)
ANALYSIS_CONCURRENCY == 3

\* the number of analyze_symbol tasks of one batch (symbols of the batch times
\* timeframes) and the number of batches of a run
TasksPerBatch == 4

Batches == 2

NumTasks == TasksPerBatch * Batches

\* a coroutine of the batch passed to asyncio.gather that has not run yet
PendingTask == [pc |-> "pending", outcomes |-> 0, session |-> "none"]

\* AnalysisStats()
NewStats == [total |-> 0, success |-> 0, failed |-> 0, errors |-> 0]

\* The coordinator before a run: the semaphore holds all its permits.  tasks
\* are the tasks of the batch being gathered; launched counts the tasks
\* created in the run, carried the tasks still unfinished when a later batch
\* was created.
NoRun ==
    [pc |-> "idle", batch |-> 0, tasks |-> <<>>, permits |-> ANALYSIS_CONCURRENCY,
     stats |-> NewStats, launched |-> 0, carried |-> 0]

\* config.ANALYSIS_INTERVAL_HOURS; the clock of the service counts hours
ANALYSIS_INTERVAL_HOURS == 4

\* the job is added without max_instances: the scheduler's default
max_instances == 1

\* the hours of service that are followed
MaxHours == 12

\* The service before start-up: the scheduler is not running and has no job.
\* startup is the state of the run awaited by lifespan, instances the running
\* instances of the interval job that the scheduler counts.
NoService ==
    [lifespan |-> "starting", started |-> FALSE, now |-> 0, next_run_time |-> 0,
     startup |-> "none", instances |-> 0, fired |-> 0, skipped |-> 0]

Init ==
    /\ top_n_levels = DefaultTopN
    /\ pc = "idle"
    /\ df = <<>>
    /\ timeframe = TF(1, "h")
    /\ cand = NoSides
    /\ lev = NoSides
    /\ result = NoResult
    /\ trace = <<>>
    /\ ref = NoRef
    /\ probe = NoProbe
    /\ other = NoInvocation
    /\ fetch = IdleFetch
    /\ coord = NoRun
    /\ sched = NoService

\* Call with the minimum-data test off by one
Call_OffByOne(frame, tf) ==
    /\ pc \in {"idle", "done"}
    /\ df' = frame
    /\ timeframe' = tf
    /\ cand' = NoSides
    /\ lev' = NoSides
    /\ trace' = <<>>
    /\ IF Len(frame) < MinCandles - 1
       THEN /\ result' = Returned(<<>>, <<>>)
            /\ pc' = "done"
       ELSE /\ result' = NoResult
            /\ pc' = "extrema"
    /\ ref' = IF ref.kind = "some" THEN [ref EXCEPT !.later = Min(2, @ + 1)] ELSE ref
    /\ UNCHANGED <<top_n_levels, probe, other, fetch, coord, sched>>

\* The call, up to the minimum-data test: a frame of fewer than 50 candles
\* returns ([], []) at once.
Call(frame, tf) ==
    /\ pc \in {"idle", "done"}
    /\ df' = frame
    /\ timeframe' = tf
    /\ cand' = NoSides
    /\ lev' = NoSides
    /\ trace' = <<>>
    /\ IF Len(frame) < MinCandles
       THEN /\ result' = Returned(<<>>, <<>>)
            /\ pc' = "done"
       ELSE /\ result' = NoResult
            /\ pc' = "extrema"
    /\ ref' = IF ref.kind = "some" THEN [ref EXCEPT !.later = Min(2, @ + 1)] ELSE ref
    /\ UNCHANGED <<top_n_levels, probe, other, fetch, coord, sched>>

\* Step 1
FindExtrema ==
    /\ pc = "extrema"
    /\ cand' = [s |-> find_local_extrema(df, timeframe, TRUE),
                r |-> find_local_extrema(df, timeframe, FALSE)]
    /\ trace' = Append(trace, "extrema")
    /\ pc' = "cluster"
    /\ UNCHANGED <<top_n_levels, df, timeframe, lev, result, ref, probe, other, fetch, coord, sched>>

\* Step 2.  With a last close of 0 and a candidate on either side the
\* clustering raises (eps = 0 is refused; the distance divides by zero).
ClusterAndRank ==
    /\ pc = "cluster"
    /\ trace' = Append(trace, "cluster")
    /\ IF current_price_of(df) = 0 /\ (cand.s # <<>> \/ cand.r # <<>>)
       THEN /\ result' = Raised("ValueError")
            /\ pc' = "done"
            /\ lev' = lev
       ELSE /\ lev' = [s |-> cluster_and_rank_advanced(cand.s, df, current_price_of(df), TRUE),
                       r |-> cluster_and_rank_advanced(cand.r, df, current_price_of(df), FALSE)]
            /\ pc' = "validate"
            /\ result' = result
    /\ UNCHANGED <<top_n_levels, df, timeframe, cand, ref, probe, other, fetch, coord, sched>>

\* Step 3 (the candidate lists are deleted before it)
Validate ==
    /\ pc = "validate"
    /\ lev' = [s |-> validate_levels(lev.s, df, TRUE),
               r |-> validate_levels(lev.r, df, FALSE)]
    /\ cand' = NoSides
    /\ trace' = Append(trace, "validate")
    /\ pc' = "augment"
    /\ UNCHANGED <<top_n_levels, df, timeframe, result, ref, probe, other, fetch, coord, sched>>

\* AddTechnical that runs the validation after the technical levels were
\* added, so that they receive the strength bonus as well
AddTechnical_Validated ==
    /\ pc = "augment"
    /\ trace' = Append(trace, "augment")
    /\ IF add_bollinger_raises(df, lev, current_price_of(df))
       THEN /\ result' = Raised("ZeroDivisionError")
            /\ pc' = "done"
            /\ lev' = lev
       ELSE /\ LET out == add_technical_levels(df, lev.s, lev.r, current_price_of(df))
                   bonus(l, is_support) ==
                       IF l.source = "extrema" THEN l
                       ELSE [l EXCEPT !.score =
                                FAdd(@, RMul(validation_counts(l.price, df, is_support).strength,
                                             <<2, 1>>))]
               IN  lev' = [s |-> sort_by_score_desc([k \in 1..Len(out.s) |-> bonus(out.s[k], TRUE)]),
                           r |-> sort_by_score_desc([k \in 1..Len(out.r) |-> bonus(out.r[k], FALSE)])]
            /\ pc' = "truncate"
            /\ result' = result
    /\ UNCHANGED <<top_n_levels, df, timeframe, cand, ref, probe, other, fetch, coord, sched>>

\* Step 4
AddTechnical ==
    /\ pc = "augment"
    /\ trace' = Append(trace, "augment")
    /\ IF add_bollinger_raises(df, lev, current_price_of(df))
       THEN /\ result' = Raised("ZeroDivisionError")
            /\ pc' = "done"
            /\ lev' = lev
       ELSE /\ lev' = add_technical_levels(df, lev.s, lev.r, current_price_of(df))
            /\ pc' = "truncate"
            /\ result' = result
    /\ UNCHANGED <<top_n_levels, df, timeframe, cand, ref, probe, other, fetch, coord, sched>>

PricesOf(levels) == [k \in 1..Len(levels) |-> levels[k].price]

\* Truncate without the slice
Truncate_NoSlice ==
    /\ pc = "truncate"
    /\ result' = Returned(PricesOf(lev.s), PricesOf(lev.r))
    /\ trace' = Append(trace, "truncate")
    /\ pc' = "done"
    /\ UNCHANGED <<top_n_levels, df, timeframe, cand, lev, ref, probe, other, fetch, coord, sched>>

\* Truncate that writes the instance: every invocation lowers top_n_levels
Truncate_Stateful ==
    /\ pc = "truncate"
    /\ result' = Returned(PricesOf(Take(lev.s, top_n_levels)),
                          PricesOf(Take(lev.r, top_n_levels)))
    /\ top_n_levels' = Max(0, top_n_levels - 1)
    /\ trace' = Append(trace, "truncate")
    /\ pc' = "done"
    /\ UNCHANGED <<df, timeframe, cand, lev, ref, probe, other, fetch, coord, sched>>

\* Step 5: the prices of the first top_n_levels levels of each side
Truncate ==
    /\ pc = "truncate"
    /\ result' = Returned(PricesOf(Take(lev.s, top_n_levels)),
                          PricesOf(Take(lev.r, top_n_levels)))
    /\ trace' = Append(trace, "truncate")
    /\ pc' = "done"
    /\ UNCHANGED <<top_n_levels, df, timeframe, cand, lev, ref, probe, other, fetch, coord, sched>>

\* The caller keeps what a finished invocation returned, to compare later
\* invocations with it; ref.later counts the invocations started since.
Remember ==
    /\ pc = "done"
    /\ ref = NoRef
    /\ ref' = [kind |-> "some", df |-> df, timeframe |-> timeframe,
               result |-> result, later |-> 0]
    /\ UNCHANGED <<top_n_levels, pc, df, timeframe, cand, lev, result, trace, probe, other, fetch, coord, sched>>

Next ==
    \/ \E frame \in Frames, tf \in TimeFrames : Call(frame, tf)
    \/ FindExtrema
    \/ ClusterAndRank
    \/ Validate
    \/ AddTechnical
    \/ Truncate

Spec == Init /\ [][Next]_vars

-----------------------------------------------------------------------------
(* Repeated invocations on the shared analyzer instance, over a smaller    *)
(* family of frames, with one earlier invocation remembered                *)

RepeatFrames ==
    {MakeFrame(n, Amp(1), DriftStep * d, t, v) :
        n \in {MinCandles}, d \in {0, MaxDrift}, t \in {"none", "drop"}, v \in {"zero", "flat"}}
    \cup {MakeFrame(MinCandles - 1, Amp(1), 0, "none", "flat")}

RepeatTimeFrames == {TF(1, "h"), TF(3, "h")}

NextRepeat ==
    \/ \E frame \in RepeatFrames, tf \in RepeatTimeFrames : Call(frame, tf)
    \/ FindExtrema
    \/ ClusterAndRank
    \/ Validate
    \/ AddTechnical
    \/ Truncate
    \/ Remember

SpecRepeat == Init /\ [][NextRepeat]_vars

-----------------------------------------------------------------------------
(* Two invocations in flight on the shared instance `analyzer`.  The first *)
(* is the invocation of the variables pc, df, ..., trace; the second keeps *)
(* its own parameters and locals in the record `other`.  The two advance   *)
(* stage by stage in any interleaving; self.top_n_levels is the only thing *)
(* both read.                                                              *)

\* the locals of an invocation that has just passed the minimum-data test
InvocationOf(frame, tf) ==
    IF Len(frame) < MinCandles
    THEN [NoInvocation EXCEPT !.df = frame, !.timeframe = tf,
                              !.result = Returned(<<>>, <<>>), !.pc = "done"]
    ELSE [NoInvocation EXCEPT !.df = frame, !.timeframe = tf, !.pc = "extrema"]

\* one stage of analyze_support_resistance on the locals inv of an invocation
Advance(inv, top_n) ==
    LET current_price == current_price_of(inv.df)
        staged == [inv EXCEPT !.trace = Append(@, inv.pc)]
    IN  CASE inv.pc = "extrema" ->
               [staged EXCEPT !.cand = [s |-> find_local_extrema(inv.df, inv.timeframe, TRUE),
                                        r |-> find_local_extrema(inv.df, inv.timeframe, FALSE)],
                              !.pc = "cluster"]
          [] inv.pc = "cluster" ->
               IF current_price = 0 /\ (inv.cand.s # <<>> \/ inv.cand.r # <<>>)
               THEN [staged EXCEPT !.result = Raised("ValueError"), !.pc = "done"]
               ELSE [staged EXCEPT
                        !.lev = [s |-> cluster_and_rank_advanced(inv.cand.s, inv.df,
                                                                 current_price, TRUE),
                                 r |-> cluster_and_rank_advanced(inv.cand.r, inv.df,
                                                                 current_price, FALSE)],
                        !.pc = "validate"]
          [] inv.pc = "validate" ->
               [staged EXCEPT !.lev = [s |-> validate_levels(inv.lev.s, inv.df, TRUE),
                                       r |-> validate_levels(inv.lev.r, inv.df, FALSE)],
                              !.cand = NoSides,
                              !.pc = "augment"]
          [] inv.pc = "augment" ->
               IF add_bollinger_raises(inv.df, inv.lev, current_price)
               THEN [staged EXCEPT !.result = Raised("ZeroDivisionError"), !.pc = "done"]
               ELSE [staged EXCEPT !.lev = add_technical_levels(inv.df, inv.lev.s, inv.lev.r,
                                                                current_price),
                                   !.pc = "truncate"]
          [] inv.pc = "truncate" ->
               [staged EXCEPT !.result = Returned(PricesOf(Take(inv.lev.s, top_n)),
                                                  PricesOf(Take(inv.lev.r, top_n))),
                              !.pc = "done"]
          [] OTHER -> inv

\* The second invocation starts, once a first invocation that ran alone has
\* been remembered.
OtherCall(frame, tf) ==
    /\ ref.kind = "some"
    /\ other.pc \in {"idle", "done"}
    /\ other' = InvocationOf(frame, tf)
    /\ UNCHANGED <<top_n_levels, pc, df, timeframe, cand, lev, result, trace, ref, probe, fetch, coord, sched>>

\* OtherStep with the scored levels kept on the instance: the validation of
\* the second invocation reads the level lists the first has just scored
OtherStep_SharedLevels ==
    /\ other.pc \notin {"idle", "done"}
    /\ other' = [Advance([other EXCEPT !.lev = IF other.pc = "validate" /\ pc = "validate"
                                              THEN lev ELSE @],
                         top_n_levels)
                    EXCEPT !.overlap = other.overlap \/ pc \notin {"idle", "done"}]
    /\ UNCHANGED <<top_n_levels, pc, df, timeframe, cand, lev, result, trace, ref, probe, fetch, coord, sched>>

\* One stage of the second invocation; overlap records that the first
\* invocation was in flight at one of its stages.
OtherStep ==
    /\ other.pc \notin {"idle", "done"}
    /\ other' = [Advance(other, top_n_levels)
                    EXCEPT !.overlap = other.overlap \/ pc \notin {"idle", "done"}]
    /\ UNCHANGED <<top_n_levels, pc, df, timeframe, cand, lev, result, trace, ref, probe, fetch, coord, sched>>

\* Remember, of an invocation that ran before the second one ever started
RememberAlone ==
    /\ other = NoInvocation
    /\ Remember

ConcurrentFrames ==
    {MakeFrame(MinCandles, Amp(1), 0, "none", "flat"),
     MakeFrame(MinCandles, Amp(1), DriftStep * MaxDrift, "drop", "flat"),
     MakeFrame(MinCandles - 1, Amp(1), 0, "none", "flat")}

ConcurrentTimeFrames == {TF(1, "h")}

NextConcurrent ==
    \/ \E frame \in ConcurrentFrames, tf \in ConcurrentTimeFrames : Call(frame, tf)
    \/ FindExtrema
    \/ ClusterAndRank
    \/ Validate
    \/ AddTechnical
    \/ Truncate
    \/ RememberAlone
    \/ \E frame \in ConcurrentFrames, tf \in ConcurrentTimeFrames : OtherCall(frame, tf)
    \/ OtherStep

SpecConcurrent == Init /\ [][NextConcurrent]_vars

-----------------------------------------------------------------------------
(* The analyzer's functions applied directly to inputs drawn from bounded  *)
(* sets                                                                    *)

MaxDataLength == 250

ProbeTimeFrames ==
    {TF(15, "m"), TF(1, "h"), TF(3, "h"), TF(4, "h"), TF(1, "d"), TF(1, "w"), TF(1, "x")}

ProbeWindows(tf, data_length) ==
    /\ probe = NoProbe
    /\ probe' = [fn |-> "get_dynamic_windows", timeframe |-> tf,
                 data_length |-> data_length,
                 windows |-> get_dynamic_windows(tf, data_length)]
    /\ UNCHANGED <<top_n_levels, pc, df, timeframe, cand, lev, result, trace, ref, other, fetch, coord, sched>>

MaxTouch == 3

MaxScales == 2

ProbeVolumes == {<<<<0, 1>>, <<0, 1>>>>, <<<<3, 1>>, <<32, 25>>>>, <<<<1, 1>>, <<2, 1>>>>}

ProbeDistances == {<<0, 1>>, <<1, 200>>, <<1, 100>>, <<1, 20>>, <<1, 10>>, <<3, 20>>, <<1, 2>>, <<1, 1>>}

ProbeRecencies == {<<3, 10>>, <<13, 20>>, <<1, 1>>}

\* Two clusters of one frame and one side that differ in their member count only
ProbeScore(tc1, tc2, vol, distance_pct, recency_factor, correct_side, unique_windows) ==
    /\ probe = NoProbe
    /\ unique_windows <= Min(tc1, tc2)
    /\ probe' = [fn |-> "composite_score",
                 a |-> [touch_count |-> tc1,
                        score |-> composite_score(tc1, vol[1], vol[2], distance_pct,
                                                  recency_factor, correct_side, unique_windows)],
                 b |-> [touch_count |-> tc2,
                        score |-> composite_score(tc2, vol[1], vol[2], distance_pct,
                                                  recency_factor, correct_side, unique_windows)],
                 cluster_volume |-> vol[1], avg_volume |-> vol[2],
                 distance_pct |-> distance_pct, recency_factor |-> recency_factor,
                 correct_side |-> correct_side, unique_windows |-> unique_windows]
    /\ UNCHANGED <<top_n_levels, pc, df, timeframe, cand, lev, result, trace, ref, other, fetch, coord, sched>>

ProbeFrames ==
    {MakeFrame(n, Amp(1), DriftStep * d, t, "flat") :
        n \in {0, 1, 2, MinCandles}, d \in {0, MaxDrift}, t \in Tails}

ProbePrices ==
    {<<0, 1>>, RInt(BasePrice - DropTicks), RInt(BasePrice - Wick), Rat(2 * BasePrice + 7, 2),
     RInt(BasePrice + 9), RInt(2 * BasePrice)}

BareLevel(price) ==
    [price |-> price, score |-> Num(<<10, 1>>), source |-> "extrema", touch_count |-> 1,
     volume |-> <<1, 1>>, distance_pct |-> Num(<<0, 1>>), recency_factor |-> <<1, 1>>,
     latest_index |-> 0]

ProbeValidate(frame, p1, p2, is_support) ==
    /\ probe = NoProbe
    /\ probe' = [fn |-> "validate_levels", frame |-> frame, is_support |-> is_support,
                 levels |-> validate_levels(<<BareLevel(p1), BareLevel(p2)>>, frame, is_support),
                 rates |-> <<validation_counts(p1, frame, is_support),
                             validation_counts(p2, frame, is_support)>>]
    /\ UNCHANGED <<top_n_levels, pc, df, timeframe, cand, lev, result, trace, ref, other, fetch, coord, sched>>

MaxPrices == 4

\* Prices eps apart (3 ticks at a reference price of 1000), closer, further,
\* and far away
ProbeOffsets == {0, 3, 4, BasePrice}

ProbePriceLists ==
    UNION {[1..k -> {BasePrice + o : o \in ProbeOffsets}] : k \in 0..MaxPrices}

ProbeReferences == {BasePrice, 2 * BasePrice}

\* the candidate of position i (0-based) of a list of prices, the volumes of
\* the candidates all different
ProbeCandidates(prices) ==
    [i \in 1..Len(prices) |->
        [price |-> prices[i], volume |-> i, index |-> i - 1, window |-> MinWindow]]

RECURSIVE LCMDen(_, _)
LCMDen(rs, k) ==
    IF k > Len(rs) THEN 1
    ELSE LET rest == LCMDen(rs, k + 1)
         IN  (rs[k][2] * rest) \div GCD(rs[k][2], rest)

\* The labels of a list of cluster means clustered again with the same eps:
\* means and reference price are brought to a common denominator first.
recluster(centroids, current_price) ==
    LET den == LCMDen(centroids, 1)
    IN  cluster_prices_dbscan([g \in 1..Len(centroids) |->
                                  centroids[g][1] * (den \div centroids[g][2])],
                              den * current_price)

\* _cluster_prices_dbscan on a list of prices, the grouping and scoring of
\* _cluster_and_rank_advanced on the same list, and the clustering applied
\* again to the cluster means
ProbeCluster(prices, current_price) ==
    /\ probe = NoProbe
    /\ LET candidates == ProbeCandidates(prices)
           labels == cluster_prices_dbscan(prices, current_price)
           groups == GroupByLabel(candidates, labels)
           centroids == [g \in 1..Len(groups) |-> cluster_centroid(groups[g])]
       IN  probe' = [fn |-> "cluster_prices_dbscan",
                     prices |-> prices,
                     current_price |-> current_price,
                     labels |-> labels,
                     groups |-> groups,
                     centroids |-> centroids,
                     relabels |-> recluster(centroids, current_price),
                     total_length |-> MaxPrices + 1,
                     levels |-> cluster_and_rank_advanced(
                                    candidates,
                                    MakeFrame(MaxPrices + 1, Amp(1), 0, "none", "flat"),
                                    current_price, TRUE)]
    /\ UNCHANGED <<top_n_levels, pc, df, timeframe, cand, lev, result, trace, ref, other, fetch, coord, sched>>

\* Frames of one candle less than BollingerWindow, of exactly BollingerWindow
\* candles and of MinCandles candles: flat
\* (every close BasePrice) or a zigzag, the last close on the zigzag, gapped
\* down or zero
ProbeBandFrames ==
    {MakeFrame(n, amp, 0, t, "flat") :
        n \in {BollingerWindow - 1, BollingerWindow, MinCandles}, amp \in {0, Amp(1)},
        t \in Tails}

ProbeLevel(price, score) ==
    [price |-> RInt(price), score |-> Num(RInt(score)), source |-> "extrema",
     touch_count |-> 1, volume |-> <<1, 1>>, distance_pct |-> Num(<<0, 1>>),
     recency_factor |-> <<1, 1>>, latest_index |-> 0]

\* the lists passed as supports or resistances: empty, one level, or two levels
\* in ascending order of score on either side of the zigzag
ProbeLevelLists ==
    {<<>>,
     <<ProbeLevel(BasePrice - Wick, 6)>>,
     <<ProbeLevel(2 * BasePrice, 3), ProbeLevel(BasePrice - DropTicks - Wick, 9)>>}

\* _add_technical_levels on a frame and two level lists, the current price
\* being the frame's last close
ProbeAugment(frame, supports, resistances) ==
    /\ probe = NoProbe
    /\ LET current_price == current_price_of(frame)
           sides == [s |-> supports, r |-> resistances]
           raised == \/ add_bollinger_raises(frame, sides, current_price)
                     \/ add_fibonacci_raises(frame, current_price)
           out == IF raised THEN sides
                  ELSE add_technical_levels(frame, supports, resistances, current_price)
       IN  probe' = [fn |-> "add_technical_levels",
                     frame |-> frame,
                     current_price |-> current_price,
                     supports_in |-> supports,
                     resistances_in |-> resistances,
                     raised |-> raised,
                     supports |-> out.s,
                     resistances |-> out.r]
    /\ UNCHANGED <<top_n_levels, pc, df, timeframe, cand, lev, result, trace, ref, other, fetch, coord, sched>>

MaxDecayLength == 50

\* the indices a series of total_length candles has; index 0 alone for the
\* empty series, for which the function is defined all the same
DecayIndices(total_length) == 0..Max(0, total_length - 1)

\* _calculate_time_decay_factor at an index and at the index after it
ProbeDecay(index, total_length) ==
    /\ probe = NoProbe
    /\ LET later == Min(index + 1, Max(0, total_length - 1))
       IN  probe' = [fn |-> "calculate_time_decay_factor",
                     index |-> index,
                     total_length |-> total_length,
                     factor |-> calculate_time_decay_factor(index, total_length),
                     later |-> later,
                     later_factor |-> calculate_time_decay_factor(later, total_length)]
    /\ UNCHANGED <<top_n_levels, pc, df, timeframe, cand, lev, result, trace, ref, other, fetch, coord, sched>>

NextProbe ==
    \/ \E frame \in ProbeBandFrames, supports \in ProbeLevelLists,
          resistances \in ProbeLevelLists :
            ProbeAugment(frame, supports, resistances)
    \/ \E prices \in ProbePriceLists, cur \in ProbeReferences : ProbeCluster(prices, cur)
    \/ \E n \in 0..MaxDecayLength : \E idx \in DecayIndices(n) : ProbeDecay(idx, n)
    \/ \E tf \in ProbeTimeFrames, n \in 0..MaxDataLength : ProbeWindows(tf, n)
    \/ \E tc1 \in 1..MaxTouch, tc2 \in 1..MaxTouch, vol \in ProbeVolumes,
          d \in ProbeDistances, rec \in ProbeRecencies, side \in BOOLEAN,
          uw \in 1..MaxScales :
            ProbeScore(tc1, tc2, vol, d, rec, side, uw)
    \/ \E frame \in ProbeFrames, p1 \in ProbePrices, p2 \in ProbePrices,
          is_support \in BOOLEAN :
            ProbeValidate(frame, p1, p2, is_support)

SpecProbe == Init /\ [][NextProbe]_vars


-----------------------------------------------------------------------------
(* fetch_klines: the exchange client is constructed, two batches are fetched *)
(* through _fetch_ohlcv_with_retry (tenacity: at most three attempts, a     *)
(* retry on ccxt.NetworkError and its subclasses, RetryError once the       *)
(* attempts are used up), merged and returned; the except clauses return an *)
(* empty frame and the finally clause closes the client.                    *)

\* stop_after_attempt(3)
MaxAttempts == 3

MaxTimestamp == 3

MaxBatch == 2

\* the timestamps of a response of the exchange, in the order returned
TimestampLists == UNION {[1..k -> 1..MaxTimestamp] : k \in 0..MaxBatch}

\* a response: each candle carries its timestamp and, standing for its prices
\* and volume, the batch and the position it was returned at
Response(batch, timestamps) ==
    [i \in 1..Len(timestamps) |-> [timestamp |-> timestamps[i], batch |-> batch, pos |-> i]]

\* ccxt errors that are NetworkError (retried) and errors that are not
RetriedErrors == {"NetworkError", "RequestTimeout", "RateLimitExceeded"}

OtherErrors == {"BadSymbol", "Exception"}

FetchOutcomes ==
    [kind : {"ok"}, timestamps : TimestampLists, error : {"none"}]
        \cup [kind : {"raise"}, timestamps : {<<>>}, error : RetriedErrors \cup OtherErrors]

\* merge with the first batch put before the second, so that for a timestamp
\* of both batches the candle of the second batch is kept
merge_candles_older_wins(batch1, batch2) ==
    LET all_candles == batch1 \o batch2
        stamps == {all_candles[i].timestamp : i \in 1..Len(all_candles)}
        unique(ts) ==
            all_candles[SetMax({i \in 1..Len(all_candles) : all_candles[i].timestamp = ts})]
        order == SortedSeq(stamps)
    IN  [k \in 1..Len(order) |-> unique(order[k])]

\* all_candles = batch2 + batch1; the dict keeps, for every timestamp, the
\* last candle of all_candles that has it; sorted by timestamp
merge_candles(batch1, batch2) ==
    LET all_candles == batch2 \o batch1
        stamps == {all_candles[i].timestamp : i \in 1..Len(all_candles)}
        unique(ts) ==
            all_candles[SetMax({i \in 1..Len(all_candles) : all_candles[i].timestamp = ts})]
        order == SortedSeq(stamps)
    IN  [k \in 1..Len(order) |-> unique(order[k])]

\* exchange = exchange_class(config)
FetchCall ==
    /\ fetch.pc \in {"idle", "done"}
    /\ fetch' = [IdleFetch EXCEPT !.pc = "batch1"]
    /\ UNCHANGED <<analysisVars, coord, sched>>

\* One attempt of exchange.fetch_ohlcv inside _fetch_ohlcv_with_retry, and
\* what follows it up to the next await.
FetchOhlcv(outcome) ==
    /\ fetch.pc \in {"batch1", "batch2"}
    /\ fetch' =
         IF outcome.kind = "ok"
         THEN IF fetch.pc = "batch1"
              THEN IF outcome.timestamps = <<>>
                   THEN [fetch EXCEPT !.attempt = @ + 1, !.error = "ValueError",
                                      !.pc = "except"]
                   ELSE [fetch EXCEPT !.attempt = 0,
                                      !.batch1 = Response(1, outcome.timestamps),
                                      !.pc = "batch2"]
              ELSE [fetch EXCEPT !.attempt = 0,
                                 !.batch2 = Response(2, outcome.timestamps),
                                 !.pc = "merge"]
         ELSE IF outcome.error \in RetriedErrors
              THEN IF fetch.attempt + 1 < MaxAttempts
                   THEN [fetch EXCEPT !.attempt = @ + 1]
                   ELSE [fetch EXCEPT !.attempt = @ + 1, !.error = "RetryError",
                                      !.pc = "except"]
              ELSE [fetch EXCEPT !.attempt = @ + 1, !.error = outcome.error,
                                 !.pc = "except"]
    /\ UNCHANGED <<analysisVars, coord, sched>>

\* lines 74-83: merge, build the frame, return it
FetchMerge ==
    /\ fetch.pc = "merge"
    /\ fetch' = [fetch EXCEPT !.result = merge_candles(fetch.batch1, fetch.batch2),
                              !.returned = TRUE,
                              !.pc = "finally"]
    /\ UNCHANGED <<analysisVars, coord, sched>>

\* except clauses that handle the two ccxt errors named only; any other
\* exception leaves fetch_klines
FetchExcept_Narrow ==
    /\ fetch.pc = "except"
    /\ fetch' = IF fetch.error \in {"RateLimitExceeded", "BadSymbol"}
                THEN [fetch EXCEPT !.handler = fetch.error, !.result = <<>>,
                                   !.returned = TRUE, !.pc = "finally"]
                ELSE [fetch EXCEPT !.escaped = TRUE, !.pc = "finally"]
    /\ UNCHANGED <<analysisVars, coord, sched>>

\* lines 85-94: the first except clause that matches; each returns an empty
\* frame, the one for RateLimitExceeded after sleeping 60 seconds
FetchExcept ==
    /\ fetch.pc = "except"
    /\ LET handler == IF fetch.error \in {"RateLimitExceeded", "BadSymbol"}
                      THEN fetch.error ELSE "Exception"
       IN  fetch' = [fetch EXCEPT !.handler = handler,
                                  !.slept = (handler = "RateLimitExceeded"),
                                  !.result = <<>>,
                                  !.returned = TRUE,
                                  !.pc = "finally"]
    /\ UNCHANGED <<analysisVars, coord, sched>>

\* finally: await exchange.close()
FetchClose ==
    /\ fetch.pc = "finally"
    /\ fetch' = [fetch EXCEPT !.closed = @ + 1, !.pc = "done"]
    /\ UNCHANGED <<analysisVars, coord, sched>>

NextFetch ==
    \/ FetchCall
    \/ \E outcome \in FetchOutcomes : FetchOhlcv(outcome)
    \/ FetchMerge
    \/ FetchExcept
    \/ FetchClose

SpecFetch == Init /\ [][NextFetch]_vars

-----------------------------------------------------------------------------
(* run_market_analysis: batches of analyze_symbol tasks gathered one batch   *)
(* after the other; every task body runs inside `async with self.semaphore`. *)
(* A task is a coroutine on the event loop: an action is what the task does  *)
(* from one await to the next.                                               *)

\* stats.add_success()
add_success(stats) == [stats EXCEPT !.total = @ + 1, !.success = @ + 1]

\* stats.add_failure(error)
add_failure(stats) == [stats EXCEPT !.total = @ + 1, !.failed = @ + 1, !.errors = @ + 1]

\* the tasks inside the body of `async with self.semaphore`
InBody(tasks) == {t \in 1..Len(tasks) : tasks[t].pc \in {"fetching", "writing", "closing"}}

AllDone(tasks) == \A t \in 1..Len(tasks) : tasks[t].pc = "done"

\* stats = AnalysisStats() (lines 165-166)
RunStart ==
    /\ coord.pc \in {"idle", "finished"}
    /\ coord' = [coord EXCEPT !.pc = "running", !.batch = 0, !.tasks = <<>>,
                              !.stats = NewStats, !.launched = 0, !.carried = 0]
    /\ UNCHANGED <<analysisVars, fetch, sched>>

\* LaunchBatch that does not wait for the batch before
LaunchBatch_NoGather ==
    /\ coord.pc = "running"
    /\ coord.batch < Batches
    /\ coord' = [coord EXCEPT
                    !.batch = @ + 1,
                    !.tasks = [t \in 1..TasksPerBatch |-> PendingTask],
                    !.launched = @ + TasksPerBatch,
                    !.carried = @ + Cardinality({t \in 1..Len(coord.tasks) :
                                                    coord.tasks[t].pc # "done"})]
    /\ UNCHANGED <<analysisVars, fetch, sched>>

\* Lines 197-217: the tasks of the next batch are created and gathered, once
\* the gather of the batch before has returned.
LaunchBatch ==
    /\ coord.pc = "running"
    /\ coord.batch < Batches
    /\ AllDone(coord.tasks)
    /\ coord' = [coord EXCEPT
                    !.batch = @ + 1,
                    !.tasks = [t \in 1..TasksPerBatch |-> PendingTask],
                    !.launched = @ + TasksPerBatch,
                    !.carried = @ + Cardinality({t \in 1..Len(coord.tasks) :
                                                    coord.tasks[t].pc # "done"})]
    /\ UNCHANGED <<analysisVars, fetch, sched>>

\* TaskAcquire that enters the body without a permit being free
TaskAcquire_NoLimit(t) ==
    /\ coord.pc = "running"
    /\ t \in 1..Len(coord.tasks)
    /\ coord.tasks[t].pc = "pending"
    /\ coord' = [coord EXCEPT !.tasks[t].pc = "fetching", !.permits = @ - 1]
    /\ UNCHANGED <<analysisVars, fetch, sched>>

\* async with self.semaphore (line 96), up to await analyzer.fetch_klines
TaskAcquire(t) ==
    /\ coord.pc = "running"
    /\ t \in 1..Len(coord.tasks)
    /\ coord.tasks[t].pc = "pending"
    /\ coord.permits > 0
    /\ coord' = [coord EXCEPT !.tasks[t].pc = "fetching", !.permits = @ - 1]
    /\ UNCHANGED <<analysisVars, fetch, sched>>

\* TaskFetched that returns on an empty frame without recording the failure
TaskFetched_SilentEmpty(t, outcome) ==
    /\ coord.pc = "running"
    /\ t \in 1..Len(coord.tasks)
    /\ coord.tasks[t].pc = "fetching"
    /\ coord' =
         CASE outcome = "empty" ->
                [coord EXCEPT !.tasks[t].pc = "done", !.permits = @ + 1]
           [] outcome = "raise" ->
                [coord EXCEPT !.stats = add_failure(@), !.tasks[t].outcomes = @ + 1,
                              !.tasks[t].pc = "done", !.permits = @ + 1]
           [] OTHER ->
                [coord EXCEPT !.tasks[t].session = "open", !.tasks[t].pc = "writing"]
    /\ UNCHANGED <<analysisVars, fetch, sched>>

\* fetch_klines has returned (lines 102-136).  An empty frame: add_failure,
\* return, the semaphore is released.  An exception of the fetch, of the
\* analysis or of the session factory: the except clause records the failure
\* and the semaphore is released.  Otherwise the session is opened and the
\* task awaits the upsert.
TaskFetched(t, outcome) ==
    /\ coord.pc = "running"
    /\ t \in 1..Len(coord.tasks)
    /\ coord.tasks[t].pc = "fetching"
    /\ coord' =
         CASE outcome \in {"empty", "raise"} ->
                [coord EXCEPT !.stats = add_failure(@), !.tasks[t].outcomes = @ + 1,
                              !.tasks[t].pc = "done", !.permits = @ + 1]
           [] OTHER ->
                [coord EXCEPT !.tasks[t].session = "open", !.tasks[t].pc = "writing"]
    /\ UNCHANGED <<analysisVars, fetch, sched>>

\* upsert_analysis_result has returned True or False, or has raised (lines
\* 138-151); the finally clause then awaits db_session.close()
TaskWritten(t, outcome) ==
    /\ coord.pc = "running"
    /\ t \in 1..Len(coord.tasks)
    /\ coord.tasks[t].pc = "writing"
    /\ coord' = [coord EXCEPT
                    !.stats = IF outcome = "true" THEN add_success(@) ELSE add_failure(@),
                    !.tasks[t].outcomes = @ + 1,
                    !.tasks[t].pc = "closing"]
    /\ UNCHANGED <<analysisVars, fetch, sched>>

\* db_session.close() has returned (line 155); the body is left and the
\* semaphore released
TaskClosed(t) ==
    /\ coord.pc = "running"
    /\ t \in 1..Len(coord.tasks)
    /\ coord.tasks[t].pc = "closing"
    /\ coord' = [coord EXCEPT !.tasks[t].session = "closed", !.tasks[t].pc = "done",
                              !.permits = @ + 1]
    /\ UNCHANGED <<analysisVars, fetch, sched>>

\* The run ends (lines 227-233) after the last batch, or earlier when no
\* symbols are found or fetch_symbols raises; never inside a gather.
RunEnd ==
    /\ coord.pc = "running"
    /\ AllDone(coord.tasks)
    /\ coord' = [coord EXCEPT !.pc = "finished"]
    /\ UNCHANGED <<analysisVars, fetch, sched>>

NextCoordinator ==
    \/ RunStart
    \/ LaunchBatch
    \/ \E t \in 1..TasksPerBatch : TaskAcquire(t)
    \/ \E t \in 1..TasksPerBatch, outcome \in {"empty", "raise", "data"} : TaskFetched(t, outcome)
    \/ \E t \in 1..TasksPerBatch, outcome \in {"true", "false", "raise"} : TaskWritten(t, outcome)
    \/ \E t \in 1..TasksPerBatch : TaskClosed(t)
    \/ RunEnd

SpecCoordinator == Init /\ [][NextCoordinator]_vars

-----------------------------------------------------------------------------
(* The service: lifespan starts the scheduler with the interval job and then *)
(* awaits the startup run itself; the scheduler fires the interval job.      *)

\* the runs of run_market_analysis in progress
RunsInProgress(service) == (IF service.startup = "running" THEN 1 ELSE 0) + service.instances

\* start_scheduler(): add_job with IntervalTrigger(hours=...) and
\* scheduler.start(); the first run time of the job is one interval from now
StartScheduler ==
    /\ sched.lifespan = "starting"
    /\ sched' = [sched EXCEPT !.lifespan = "scheduled", !.started = TRUE,
                              !.next_run_time = sched.now + ANALYSIS_INTERVAL_HOURS]
    /\ UNCHANGED <<analysisVars, fetch, coord>>

\* main.py lines 47-56: with ANALYSIS_RUN_ON_STARTUP lifespan awaits
\* run_analysis() itself, otherwise it goes on to serve
StartupRun(ANALYSIS_RUN_ON_STARTUP) ==
    /\ sched.lifespan = "scheduled"
    /\ sched' = IF ANALYSIS_RUN_ON_STARTUP
                THEN [sched EXCEPT !.lifespan = "startup_run", !.startup = "running"]
                ELSE [sched EXCEPT !.lifespan = "serving"]
    /\ UNCHANGED <<analysisVars, fetch, coord>>

\* the awaited startup run returns (run_analysis catches every Exception)
StartupRunEnd ==
    /\ sched.startup = "running"
    /\ sched' = [sched EXCEPT !.lifespan = "serving", !.startup = "done"]
    /\ UNCHANGED <<analysisVars, fetch, coord>>

\* An hour passes; the scheduler handles a due job before the next hour.
Tick ==
    /\ sched.now < MaxHours
    /\ ~(sched.started /\ sched.now >= sched.next_run_time)
    /\ sched' = [sched EXCEPT !.now = @ + 1]
    /\ UNCHANGED <<analysisVars, fetch, coord>>

\* The interval job is due: the scheduler starts run_analysis on the event
\* loop unless max_instances instances of the job are running, in which case
\* the firing is skipped; the next run time moves on by one interval.
IntervalFire ==
    /\ sched.started
    /\ sched.now >= sched.next_run_time
    /\ sched' = IF sched.instances < max_instances
                THEN [sched EXCEPT !.instances = @ + 1, !.fired = @ + 1,
                                   !.next_run_time = @ + ANALYSIS_INTERVAL_HOURS]
                ELSE [sched EXCEPT !.skipped = @ + 1,
                                   !.next_run_time = @ + ANALYSIS_INTERVAL_HOURS]
    /\ UNCHANGED <<analysisVars, fetch, coord>>

\* a run started by the scheduler returns
JobRunEnd ==
    /\ sched.instances > 0
    /\ sched' = [sched EXCEPT !.instances = @ - 1]
    /\ UNCHANGED <<analysisVars, fetch, coord>>

\* stop_scheduler() after the yield of lifespan
StopScheduler ==
    /\ sched.lifespan = "serving"
    /\ sched' = [sched EXCEPT !.lifespan = "stopped", !.started = FALSE]
    /\ UNCHANGED <<analysisVars, fetch, coord>>

NextSchedule ==
    \/ StartScheduler
    \/ \E ANALYSIS_RUN_ON_STARTUP \in BOOLEAN : StartupRun(ANALYSIS_RUN_ON_STARTUP)
    \/ StartupRunEnd
    \/ Tick
    \/ IntervalFire
    \/ JobRunEnd
    \/ StopScheduler

SpecSchedule == Init /\ [][NextSchedule]_vars

-----------------------------------------------------------------------------
(* Claims *)

KnownUnits == {"m", "h", "d", "w"}

\* the level lists are those returned by add_technical_levels
Augmented ==
    \/ pc = "truncate"
    \/ pc = "done" /\ result.kind = "ok" /\ Len(df) >= MinCandles

\* C1: a frame of fewer than 50 candles (the empty frame included), with any
\* timeframe, returns ([], []) without raising, and no stage of the pipeline
\* (extrema, clustering, validation, augmentation) runs on it.
C1_ShortFrameReturnsEmpty ==
    Len(df) < MinCandles =>
        /\ pc \in {"idle", "done"}
        /\ trace = <<>>
        /\ cand = NoSides
        /\ lev = NoSides
        /\ pc = "done" => result = Returned(<<>>, <<>>)

C1_Witness ==
    /\ pc = "done"
    /\ Len(df) = MinCandles - 1
    /\ result = Returned(<<>>, <<>>)

\* C2: each of the two returned lists has at most top_n_levels = 5 entries,
\* however many levels the pipeline produced.
C2_AtMostTopN ==
    /\ top_n_levels = DefaultTopN
    /\ result.kind = "ok" =>
        /\ Len(result.supports) <= top_n_levels
        /\ Len(result.resistances) <= top_n_levels

C2_Witness ==
    /\ pc = "done"
    /\ result.kind = "ok"
    /\ Len(lev.s) > DefaultTopN
    /\ Len(lev.r) > DefaultTopN
    /\ Len(result.supports) = DefaultTopN
    /\ Len(result.resistances) = DefaultTopN

\* prices are the prices of the first top-N of levels, in non-increasing
\* order of score, and no level left out scores strictly higher than one kept
OutputFollowsScore(levels, prices) ==
    /\ prices = PricesOf(Take(levels, DefaultTopN))
    /\ \A k \in 1..(Len(prices) - 1) : FGeq(levels[k].score, levels[k + 1].score)
    /\ \A k \in 1..Len(prices) : \A l \in (Len(prices) + 1)..Len(levels) :
           ~FLess(levels[k].score, levels[l].score)

C4_WindowsInRange ==
    probe.fn = "get_dynamic_windows" =>
        \/ /\ probe.windows # <<>>
           /\ \A k \in 1..Len(probe.windows) :
                  /\ MinWindow <= probe.windows[k]
                  /\ probe.windows[k] <= probe.data_length \div MaxWindowDivisor
        \/ probe.windows = <<Min(FallbackWindow, probe.data_length \div FallbackDivisor)>>

\* a frame of at least 50 candles whose windows are the fallback, itself
\* below the minimum window
C4_Witness ==
    /\ probe.fn = "get_dynamic_windows"
    /\ probe.data_length >= MinCandles
    /\ Len(probe.windows) = 1
    /\ probe.windows[1] < MinWindow
    /\ probe.windows[1] = probe.data_length \div FallbackDivisor

C6_LevelsOnTheirSide ==
    (pc = "done" /\ result.kind = "ok" /\ Len(df) >= MinCandles) =>
        /\ \A k \in 1..Len(result.supports) :
               RLeq(result.supports[k], RInt(current_price_of(df)))
        /\ \A k \in 1..Len(result.resistances) :
               RLeq(RInt(current_price_of(df)), result.resistances[k])

\* C6 as amended: every technical level (band or retracement) of the supports
\* is strictly below the last close and every technical level of the
\* resistances strictly above it; empirical levels are not filtered by side.
C6_TechnicalLevelsOnTheirSide ==
    Augmented =>
        /\ \A k \in 1..Len(lev.s) :
               lev.s[k].source # "extrema" =>
                   RLess(lev.s[k].price, RInt(current_price_of(df)))
        /\ \A k \in 1..Len(lev.r) :
               lev.r[k].source # "extrema" =>
                   RLess(RInt(current_price_of(df)), lev.r[k].price)

\* a returned empirical support above the last close, beside a returned
\* technical resistance
C6_Witness ==
    /\ pc = "done"
    /\ result.kind = "ok"
    /\ \E k \in 1..Len(result.supports) :
           /\ lev.s[k].source = "extrema"
           /\ RLess(RInt(current_price_of(df)), result.supports[k])
    /\ \E k \in 1..Len(result.resistances) : lev.r[k].source # "extrema"

\* C7: with a timeframe whose unit is none of m, h, d, w the invocation ends in
\* an error and returns no levels.
C7_UnknownUnitRaises ==
    (pc = "done" /\ Len(df) >= MinCandles /\ timeframe.unit \notin KnownUnits) =>
        result.kind = "raise"

\* C8: no invocation raises a division error and no level carries a score
\* that is NaN or infinite, zero volumes and a zero last close included.
C8_DivisionsGuarded ==
    /\ result.kind # "raise"
    /\ \A k \in 1..Len(lev.s) : IsFinite(lev.s[k].score)
    /\ \A k \in 1..Len(lev.r) : IsFinite(lev.r[k].score)

RatesBounded(level, n) ==
    /\ level.touches <= Max(0, n - 1)
    /\ level.bounces <= level.touches
    /\ level.breaks <= level.touches
    /\ RLeq(<<0, 1>>, level.bounce_rate) /\ RLeq(level.bounce_rate, <<1, 1>>)
    /\ RLeq(<<0, 1>>, level.break_rate) /\ RLeq(level.break_rate, <<1, 1>>)
    /\ level.strength = RSub(level.bounce_rate, level.break_rate)
    /\ RLeq(<<-1, 1>>, level.strength) /\ RLeq(level.strength, <<1, 1>>)
    /\ level.touches = 0 =>
           /\ level.bounce_rate = <<0, 1>>
           /\ level.break_rate = <<0, 1>>
           /\ level.strength = <<0, 1>>

\* C9: validation counts touches on the candles before the last only, at
\* most one bounce and one break per touch; bounce_rate and break_rate lie in
\* [0, 1], strength = bounce_rate - break_rate in [-1, 1], all three 0 when
\* there is no touch.
C9_RatesInRange ==
    probe.fn = "validate_levels" =>
        /\ \A k \in 1..Len(probe.rates) : RatesBounded(probe.rates[k], Len(probe.frame))
        /\ \A k \in 1..Len(probe.levels) :
               \E j \in 1..Len(probe.rates) :
                   /\ probe.levels[k].touches = probe.rates[j].touches
                   /\ probe.levels[k].bounces = probe.rates[j].bounces
                   /\ probe.levels[k].breaks = probe.rates[j].breaks
                   /\ probe.levels[k].bounce_rate = probe.rates[j].bounce_rate
                   /\ probe.levels[k].strength = probe.rates[j].strength

\* a level never touched beside a level with touches, bounces and breaks
C9_Witness ==
    /\ probe.fn = "validate_levels"
    /\ Len(probe.frame) >= MinCandles
    /\ \E k \in 1..Len(probe.rates) : probe.rates[k].touches = 0
    /\ \E k \in 1..Len(probe.rates) :
           /\ probe.rates[k].breaks > 0
           /\ probe.rates[k].bounces > 0
           /\ probe.rates[k].bounces < probe.rates[k].touches

\* C10: of two clusters that differ in their member count only, the one with
\* more members has a score greater than or equal to the other's.
C10_MonotonicInTouchCount ==
    (probe.fn = "composite_score" /\ probe.a.touch_count >= probe.b.touch_count) =>
        FGeq(probe.a.score, probe.b.score)


\* C11: when clustering puts two prices more than eps apart into different
\* clusters, clustering the cluster means again with the same eps does not
\* put the means of those two clusters into one cluster.
C11_CentroidsStaySeparate ==
    probe.fn = "cluster_prices_dbscan" =>
        \A g \in 1..Len(probe.groups) : \A h \in 1..Len(probe.groups) :
            (/\ g # h
             /\ \E a \in 1..Len(probe.groups[g]) : \E b \in 1..Len(probe.groups[h]) :
                    ~WithinEps(probe.groups[g][a].price, probe.groups[h][b].price,
                               probe.current_price))
            => \/ probe.relabels[g] = -1
               \/ probe.relabels[g] # probe.relabels[h]

\* two clusters of several members each, one of them a chain whose ends are
\* more than eps apart, beside another cluster
C11_Witness ==
    /\ probe.fn = "cluster_prices_dbscan"
    /\ Len(probe.groups) >= 2
    /\ \E g \in 1..Len(probe.groups) :
           \E a \in 1..Len(probe.groups[g]) : \E b \in 1..Len(probe.groups[g]) :
               ~WithinEps(probe.groups[g][a].price, probe.groups[g][b].price,
                          probe.current_price)
    /\ \A g \in 1..Len(probe.relabels) : probe.relabels[g] = -1

\* C12: grouping is a partition of the candidates: every candidate is a
\* member of exactly one cluster, a candidate labelled noise (-1) is a cluster
\* of its own and gives one scored level of touch_count 1 at its price, and
\* the touch counts of the scored levels sum to the number of candidates.
C12_GroupingIsPartition ==
    probe.fn = "cluster_prices_dbscan" =>
        /\ \A i \in 1..Len(probe.prices) :
               Cardinality({gm \in {<<g, m>> : g \in 1..Len(probe.groups),
                                               m \in 1..MaxPrices + 1} :
                               /\ gm[2] <= Len(probe.groups[gm[1]])
                               /\ probe.groups[gm[1]][gm[2]].index = i - 1}) = 1
        /\ \A i \in 1..Len(probe.prices) :
               probe.labels[i] = -1 =>
                   /\ \E g \in 1..Len(probe.groups) :
                          /\ Len(probe.groups[g]) = 1
                          /\ probe.groups[g][1].index = i - 1
                   /\ Cardinality({k \in 1..Len(probe.levels) :
                                      /\ probe.levels[k].price = RInt(probe.prices[i])
                                      /\ probe.levels[k].touch_count = 1}) = 1
        /\ Len(probe.levels) = Len(probe.groups)
        /\ SumSeq([k \in 1..Len(probe.levels) |-> probe.levels[k].touch_count])
               = Len(probe.prices)

\* two noise candidates beside a cluster of two
C12_Witness ==
    /\ probe.fn = "cluster_prices_dbscan"
    /\ Cardinality({i \in 1..Len(probe.prices) : probe.labels[i] = -1}) = 2
    /\ Cardinality({i \in 1..Len(probe.prices) : probe.labels[i] = 0}) = 2
    /\ Len(probe.levels) = 3

\* the number of positions of a list that hold x
Occurrences(x, levels) == Cardinality({k \in 1..Len(levels) : levels[k] = x})

\* every level of before is in after as often as in before, unchanged, and
\* what after holds beyond them is technical
OnlyAppended(before, after) ==
    /\ \A k \in 1..Len(before) :
           Occurrences(before[k], after) = Occurrences(before[k], before)
    /\ \A k \in 1..Len(after) :
           Occurrences(after[k], before) = 0 => after[k].source # "extrema"

\* C13: technical augmentation only appends: every level of the supports
\* (resistances) list passed in is in the returned list of the same side with
\* its price and score unchanged, and no level changes side.
C13_AugmentOnlyAppends ==
    (probe.fn = "add_technical_levels" /\ ~probe.raised) =>
        /\ OnlyAppended(probe.supports_in, probe.supports)
        /\ OnlyAppended(probe.resistances_in, probe.resistances)
        /\ \A k \in 1..Len(probe.supports_in) :
               Occurrences(probe.supports_in[k], probe.resistances)
                   = Occurrences(probe.supports_in[k], probe.resistances_in)
        /\ \A k \in 1..Len(probe.resistances_in) :
               Occurrences(probe.resistances_in[k], probe.supports)
                   = Occurrences(probe.resistances_in[k], probe.supports_in)

\* levels passed on both sides, a support above the current price among
\* them, and technical levels added on both sides, one ranked above a level
\* passed in
C13_Witness ==
    /\ probe.fn = "add_technical_levels"
    /\ ~probe.raised
    /\ Len(probe.supports_in) = 2
    /\ Len(probe.resistances_in) = 2
    /\ Len(probe.supports) > 2
    /\ Len(probe.resistances) > 2
    /\ \E k \in 1..Len(probe.supports) :
           /\ probe.supports[k].source = "extrema"
           /\ RLess(RInt(probe.current_price), probe.supports[k].price)
    /\ \E k \in 1..(Len(probe.resistances) - 1) :
           /\ probe.resistances[k].source # "extrema"
           /\ probe.resistances[k + 1].source = "extrema"

\* the levels of a list that are volatility bands
Bands(levels) == {k \in 1..Len(levels) : levels[k].source \in {"Bollinger_Upper", "Bollinger_Lower"}}

\* C14: for every series of at least 20 candles (exactly 20 included) the
\* volatility-band step completes without error, the upper band is appended
\* to resistances only if strictly above the current price and the lower band
\* to supports only if strictly below it, and for a flat series (all closes
\* equal) no band is appended.
C14_BandStepSafe ==
    (probe.fn = "add_technical_levels" /\ Len(probe.frame) >= BollingerWindow) =>
        /\ ~probe.raised
        /\ \A k \in Bands(probe.resistances) :
               /\ probe.resistances[k].source = "Bollinger_Upper"
               /\ RLess(RInt(probe.current_price), probe.resistances[k].price)
        /\ \A k \in Bands(probe.supports) :
               /\ probe.supports[k].source = "Bollinger_Lower"
               /\ RLess(probe.supports[k].price, RInt(probe.current_price))
        /\ (\A i \in 1..Len(probe.frame) : probe.frame[i].close = probe.current_price) =>
               Bands(probe.resistances) = {} /\ Bands(probe.supports) = {}

StageOrder == <<"extrema", "cluster", "validate", "augment", "truncate">>

\* a technical level carries its fixed score and nothing of the validation
FixedScore(level) ==
    /\ level.score = IF level.source \in {"Bollinger_Upper", "Bollinger_Lower"}
                     THEN Num(RInt(BollingerScore)) ELSE Num(RInt(FibScore))
    /\ DOMAIN level \cap {"touches", "bounces", "breaks", "strength", "original_score"} = {}

\* C16: the stages of an invocation run in the order extrema, clustering and
\* scoring, validation, augmentation, truncation; technical levels exist only
\* after the validation, so each reaches the final ranking with exactly its
\* fixed score (5.0 for a band, 4.0 for a retracement) and no validation bonus.
C16_StagesInOrder ==
    /\ Len(trace) <= Len(StageOrder)
    /\ trace = SubSeq(StageOrder, 1, Len(trace))
    /\ (pc = "done" /\ result.kind = "ok" /\ Len(df) >= MinCandles) => trace = StageOrder
    /\ pc \in {"extrema", "cluster", "validate", "augment"} =>
           /\ \A k \in 1..Len(lev.s) : lev.s[k].source = "extrema"
           /\ \A k \in 1..Len(lev.r) : lev.r[k].source = "extrema"
    /\ Augmented =>
           /\ \A k \in 1..Len(lev.s) : lev.s[k].source # "extrema" => FixedScore(lev.s[k])
           /\ \A k \in 1..Len(lev.r) : lev.r[k].source # "extrema" => FixedScore(lev.r[k])

\* a finished invocation whose returned supports hold a technical level and
\* an empirical level that the validation has given a bonus
C16_Witness ==
    /\ pc = "done"
    /\ result.kind = "ok"
    /\ trace = StageOrder
    /\ \E k \in 1..Len(result.supports) : lev.s[k].source # "extrema"
    /\ \E k \in 1..Len(result.supports) :
           /\ lev.s[k].source = "extrema"
           /\ IsFinite(lev.s[k].score)
           /\ lev.s[k].score # lev.s[k].original_score

\* the series in which the candidates of a side were searched
SeriesOf(is_support) ==
    [i \in 1..Len(df) |-> IF is_support THEN df[i].low ELSE df[i].high]

\* candidate c is strictly beyond every candle within its window (the
\* candles that exist), on the side of its kind
StrictlyExtreme(c, is_support) ==
    LET data == SeriesOf(is_support)
    IN  \A j \in 0..(Len(df) - 1) :
            (j # c.index /\ Abs(j - c.index) <= c.window) =>
                IF is_support THEN data[c.index + 1] < data[j + 1]
                ELSE data[c.index + 1] > data[j + 1]

\* candidate c has its whole window inside the series
AwayFromEdges(c) == c.window <= c.index /\ c.index <= Len(df) - 1 - c.window

\* C17: index i is a support candidate of window w only if low[i] is strictly
\* less than low[j] for every j with 0 < |i - j| <= w (for a resistance
\* candidate, high[i] strictly greater), and an index within w of either
\* edge (i < w or i > len - 1 - w) is never a candidate.
C17_ExtremaStrictInterior ==
    pc = "cluster" =>
        /\ \A k \in 1..Len(cand.s) :
               StrictlyExtreme(cand.s[k], TRUE) /\ AwayFromEdges(cand.s[k])
        /\ \A k \in 1..Len(cand.r) :
               StrictlyExtreme(cand.r[k], FALSE) /\ AwayFromEdges(cand.r[k])

\* C18: for every timeframe, find_extrema returns at most one candidate for
\* each pair of window size and candle index: the windows iterated are
\* pairwise distinct, so no extremum is reported twice at the same scale.
C18_OneCandidatePerScale ==
    pc = "cluster" =>
        /\ \A k \in 1..Len(cand.s) : \A l \in 1..Len(cand.s) :
               (cand.s[k].window = cand.s[l].window /\ cand.s[k].index = cand.s[l].index)
                   => k = l
        /\ \A k \in 1..Len(cand.r) : \A l \in 1..Len(cand.r) :
               (cand.r[k].window = cand.r[l].window /\ cand.r[k].index = cand.r[l].index)
                   => k = l

\* positions i and j of the list are joined by a chain of consecutive gaps, in
\* sorted order, none of them larger than eps
Chained(prices, i, j, current_price) ==
    LET lo == Min(prices[i], prices[j])
        hi == Max(prices[i], prices[j])
        vals == {prices[k] : k \in 1..Len(prices)} \cap (lo..hi)
    IN  \A v \in vals :
            v < hi => WithinEps(v, SetMin({u \in vals : u > v}), current_price)

\* no other position of the list holds a price within eps of position i's
Isolated(prices, i, current_price) ==
    \A j \in 1..Len(prices) :
        j # i => ~WithinEps(prices[i], prices[j], current_price)

\* C19: with eps = |reference price| * 0.003 and min_samples = 2 the labels are
\* those of contiguous-gap grouping: two prices of the list have the same
\* label other than -1 exactly when every consecutive gap between them in
\* sorted order is at most eps, a price has label -1 exactly when no other
\* price of the list (an equal one included) is within eps of it, and the
\* empty list gets the empty label list.
C19_LabelsAreGapGroups ==
    probe.fn = "cluster_prices_dbscan" =>
        LET prices == probe.prices
            cur == probe.current_price
            labels == probe.labels
        IN  /\ Len(labels) = Len(prices)
            /\ \A i \in 1..Len(prices) :
                   /\ labels[i] >= -1
                   /\ labels[i] = -1 <=> Isolated(prices, i, cur)
            /\ \A i \in 1..Len(prices) : \A j \in 1..Len(prices) :
                   i # j => ((labels[i] = labels[j] /\ labels[i] # -1)
                                <=> Chained(prices, i, j, cur))

\* C19 witness: a list with a price labelled -1, two prices exactly eps apart,
\* and two prices of one cluster further apart than eps, joined by a third
C19_Witness ==
    /\ probe.fn = "cluster_prices_dbscan"
    /\ \E i \in 1..Len(probe.prices) : probe.labels[i] = -1
    /\ \E i \in 1..Len(probe.prices) : \E j \in 1..Len(probe.prices) :
           /\ probe.labels[i] = probe.labels[j] /\ probe.labels[i] # -1
           /\ ~WithinEps(probe.prices[i], probe.prices[j], probe.current_price)
    /\ \E i \in 1..Len(probe.prices) : \E j \in 1..Len(probe.prices) :
           /\ probe.labels[i] = probe.labels[j] /\ probe.labels[i] # -1
           /\ 1000 * Abs(probe.prices[i] - probe.prices[j]) = 3 * Abs(probe.current_price)

\* a / b = c / d for fractions with positive denominators
SameValue(r, num, den) == r[1] * den = num * r[2]

\* C20: for a series of n candles and an index idx in 0..n-1 the time-decay
\* factor is 0.3 + 0.7 * idx / (n - 1), does not decrease from idx to idx + 1,
\* lies in [0.3, 1.0], is 0.3 at idx 0 and 1.0 at idx n - 1; it is 1.0 when
\* n <= 1.
C20_DecayFactor ==
    probe.fn = "calculate_time_decay_factor" =>
        LET n == probe.total_length
            idx == probe.index
            f == probe.factor
        IN  /\ f[2] > 0
            /\ n <= 1 => SameValue(f, 1, 1)
            /\ n >= 2 =>
                   /\ SameValue(f, 3 * (n - 1) + 7 * idx, 10 * (n - 1))
                   /\ RLeq(f, probe.later_factor)
                   /\ RLeq(<<3, 10>>, f) /\ RLeq(f, <<1, 1>>)
                   /\ idx = 0 => SameValue(f, 3, 10)
                   /\ idx = n - 1 => SameValue(f, 1, 1)

\* C20 witness: the factor of the last candle of a series of at least three
\* candles, and the factor of a candle strictly inside it
C20_Witness ==
    /\ probe.fn = "calculate_time_decay_factor"
    /\ probe.total_length >= 3
    /\ \/ probe.index = probe.total_length - 1
       \/ /\ 0 < probe.index /\ probe.index < probe.total_length - 1
          /\ RLess(probe.factor, probe.later_factor)

\* the mean of the volume column
MeanVolume(frame) == Rat(SumSeq([i \in 1..Len(frame) |-> frame[i].volume]), Len(frame))

\* The score the formula of C21 gives a level, from the attributes the level
\* records (distance_pct is recorded in percent), the number of distinct
\* windows of its cluster and the mean volume of the series (not zero)
ClaimedScore(level, distinct_scales, mean_volume, current_price, is_support) ==
    LET distance_pct == RMul(level.distance_pct.v, <<1, 100>>)
        recency == level.recency_factor
        distance_score ==
            IF RLeq(<<1, 100>>, distance_pct) /\ RLeq(distance_pct, <<1, 10>>)
            THEN RMul(<<5, 2>>, recency)
            ELSE IF RLess(distance_pct, <<1, 100>>) THEN RMul(<<2, 1>>, recency)
            ELSE LET far == RSub(<<2, 1>>, RMul(RSub(distance_pct, <<1, 10>>), <<5, 1>>))
                 IN  RMul(IF RLess(far, <<1, 5>>) THEN <<1, 5>> ELSE far, recency)
        direction_score ==
            IF \/ is_support /\ RLess(level.price, RInt(current_price))
               \/ ~is_support /\ RLess(RInt(current_price), level.price)
            THEN <<2, 1>> ELSE <<1, 2>>
    IN  RAdd(RAdd(RAdd(RAdd(RInt(3 * level.touch_count),
                            RMul(RDiv(level.volume, mean_volume), <<2, 1>>)),
                       distance_score),
                  direction_score),
             Rat(distinct_scales, 2))

\* the levels are the clusters of the candidates, each with the score of the
\* formula, in descending order of score
ScoredByFormula(levels, candidates, frame, is_support) ==
    LET current_price == current_price_of(frame)
        prices == [i \in 1..Len(candidates) |-> candidates[i].price]
        groups == GroupByLabel(candidates, cluster_prices_dbscan(prices, current_price))
        scales(g) == Cardinality({groups[g][m].window : m \in 1..Len(groups[g])})
    IN  /\ Len(levels) = Len(groups)
        /\ \A g \in 1..Len(groups) :
               \E k \in 1..Len(levels) :
                   /\ levels[k].price = cluster_centroid(groups[g])
                   /\ levels[k].touch_count = Len(groups[g])
                   /\ IsFinite(levels[k].score)
                   /\ MeanVolume(frame)[1] # 0
                   /\ levels[k].score.v =
                          ClaimedScore(levels[k], scales(g), MeanVolume(frame),
                                       current_price, is_support)
        /\ \A k \in 1..Len(levels) : \A l \in (k + 1)..Len(levels) :
               FGeq(levels[k].score, levels[l].score)

\* C21: for every cluster the composite score is touch_count * 3.0 +
\* (weighted volume / mean volume of the series) * 2.0 + distance_score +
\* direction_score + distinct_scales * 0.5, with distance_score 2.5 * recency
\* for 0.01 <= distance_pct <= 0.10, 2.0 * recency for distance_pct < 0.01 and
\* max(0.2, 2.0 - (distance_pct - 0.10) * 5) * recency beyond, direction_score
\* 2.0 strictly on the correct side of the current price and 0.5 otherwise;
\* the list returned is sorted by this score in descending order.
C21_ScoreFormula ==
    pc = "validate" =>
        /\ ScoredByFormula(lev.s, cand.s, df, TRUE)
        /\ ScoredByFormula(lev.r, cand.r, df, FALSE)

\* a validated level as it was on entry: the fields validation adds removed,
\* the score put back to original_score
AsOnEntry(level) ==
    [price |-> level.price, score |-> level.original_score, source |-> level.source,
     touch_count |-> level.touch_count, volume |-> level.volume,
     distance_pct |-> level.distance_pct, recency_factor |-> level.recency_factor,
     latest_index |-> level.latest_index]

\* `after` is `before` validated: the same levels, each with its entry score
\* kept as original_score and a finite score original_score + 2 * strength,
\* in descending order of the new score
ValidatedFrom(before, after) ==
    LET entry == [k \in 1..Len(after) |-> AsOnEntry(after[k])]
    IN  /\ Len(after) = Len(before)
        /\ \A k \in 1..Len(before) :
               Occurrences(before[k], before) = Occurrences(before[k], entry)
        /\ \A k \in 1..Len(after) :
               /\ IsFinite(after[k].score)
               /\ IsFinite(after[k].original_score)
               /\ after[k].score.v =
                      RAdd(after[k].original_score.v, RMul(<<2, 1>>, after[k].strength))
        /\ \A k \in 1..Len(after) : \A l \in (k + 1)..Len(after) :
               FGeq(after[k].score, after[l].score)

\* C22: validation leaves, for every level, original_score equal to the score
\* the level had on entry and score equal to original_score + 2.0 * strength
\* (never a value independent of the previous stage); its output holds
\* exactly the input levels and is sorted by the new score, descending.
C22_ValidationAmendsScore ==
    [][pc = "validate" =>
          /\ ValidatedFrom(lev.s, lev'.s)
          /\ ValidatedFrom(lev.r, lev'.r)]_vars

\* the place of a level in the order of appending: the levels passed in first,
\* then the bands, then the retracement levels in the order of fib_ratios
AppendRank(level) ==
    IF level.source = "extrema" THEN 0
    ELSE IF level.source \in {"Bollinger_Upper", "Bollinger_Lower"} THEN 1
    ELSE 1 + CHOOSE k \in 1..Len(fib_names) : fib_names[k] = level.source

\* |t - x| / |t| >= 0.005
ApartFrom(t, x) ==
    RLeq(RMul(RAbs(t.price), <<5, 1>>), RMul(RAbs(RSub(t.price, x.price)), <<1000, 1>>))

\* every technical level of the list is at least 0.5% of its price away from
\* every level of the list that was there when it was appended
Deduplicated(levels) ==
    \A i \in 1..Len(levels) : \A j \in 1..Len(levels) :
        (AppendRank(levels[i]) > 0 /\ AppendRank(levels[j]) < AppendRank(levels[i]))
            => ApartFrom(levels[i], levels[j])

\* the retracement price of ratio k
FibPrice(frame, k) ==
    LET high == SetMax({frame[i].high : i \in 1..Len(frame)})
        low == SetMin({frame[i].low : i \in 1..Len(frame)})
    IN  RAdd(RInt(low), Rat((high - low) * fib_ratios[k], 1000))

\* C23: a band or retracement level is appended to a side only if no level
\* already in that side's list at that moment, empirical or appended before
\* it, lies within 0.5% relative price distance of it; after the augmentation
\* every technical level is at least 0.5% away from every level that preceded
\* it on its side.
C23_TechnicalLevelsDeduplicated ==
    (probe.fn = "add_technical_levels" /\ ~probe.raised) =>
        /\ Deduplicated(probe.supports)
        /\ Deduplicated(probe.resistances)

\* C23 witness: a retracement price beyond 1% above the current price that is
\* not among the resistances, a level being within 0.5% of it, while another
\* technical level was appended to the resistances
C23_Witness ==
    /\ probe.fn = "add_technical_levels" /\ ~probe.raised
    /\ \E k \in 1..Len(fib_ratios) :
           /\ RLess(RMul(RInt(probe.current_price), <<101, 100>>), FibPrice(probe.frame, k))
           /\ \A i \in 1..Len(probe.resistances) : probe.resistances[i].source # fib_names[k]
           /\ \E i \in 1..Len(probe.resistances) :
                  ~ApartFrom([price |-> FibPrice(probe.frame, k)], probe.resistances[i])
    /\ \E i \in 1..Len(probe.resistances) :
           /\ AppendRank(probe.resistances[i]) > 0
           /\ Len(probe.resistances_in) > 0

\* the levels of a list that are retracement levels
Retracements(levels) == {k \in 1..Len(levels) : AppendRank(levels[k]) > 1}

\* retracement k is in the list, or a level of the list is within 0.5% of it
KeptOrDuplicate(frame, k, levels) ==
    \E i \in 1..Len(levels) :
        \/ levels[i].source = fib_names[k] /\ levels[i].price = FibPrice(frame, k)
        \/ ~ApartFrom([price |-> FibPrice(frame, k)], levels[i])

\* C24: for a series of fewer than 20 candles the augmentation appends no
\* volatility band, still classifies the five retracement levels (below 99%
\* of the current price a support, above 101% a resistance, else neither) and
\* deduplicates them, and returns the two lists without raising.
C24_ShortSeriesAugmented ==
    (probe.fn = "add_technical_levels" /\ Len(probe.frame) < BollingerWindow) =>
        /\ ~probe.raised
        /\ Bands(probe.supports) = {} /\ Bands(probe.resistances) = {}
        /\ Deduplicated(probe.supports) /\ Deduplicated(probe.resistances)
        /\ \A k \in 1..Len(fib_ratios) :
               LET cur == RInt(probe.current_price)
                   fib == FibPrice(probe.frame, k)
               IN  /\ RLess(fib, RMul(cur, <<99, 100>>)) =>
                          KeptOrDuplicate(probe.frame, k, probe.supports)
                   /\ RLess(RMul(cur, <<101, 100>>), fib) =>
                          KeptOrDuplicate(probe.frame, k, probe.resistances)
        /\ \A i \in Retracements(probe.supports) :
               RLess(probe.supports[i].price, RMul(RInt(probe.current_price), <<99, 100>>))
        /\ \A i \in Retracements(probe.resistances) :
               RLess(RMul(RInt(probe.current_price), <<101, 100>>), probe.resistances[i].price)

\* 0.3 + 0.7 * idx / (n - 1) for a series of n >= 2 candles
DecayOf(idx, n) == Rat(3 * (n - 1) + 7 * idx, 10 * (n - 1))

\* the level of a cluster carries the decay-weighted mean of the member
\* volumes, the total weight being positive, and that mean lies between the
\* smallest and the largest member volume
WeightedVolumeOf(cluster, level, n) ==
    LET members == 1..Len(cluster)
        weights == [i \in members |-> DecayOf(cluster[i].index, n)]
        total_weight == RSumSeq(weights)
        weighted == RSumSeq([i \in members |-> RMul(RInt(cluster[i].volume), weights[i])])
        volumes == {cluster[i].volume : i \in members}
    IN  /\ Len(cluster) >= 1
        /\ \A i \in members : 0 <= cluster[i].index /\ cluster[i].index <= n - 1
        /\ RLess(<<0, 1>>, total_weight)
        /\ level.volume = RDiv(weighted, total_weight)
        /\ RLeq(RInt(SetMin(volumes)), level.volume)
        /\ RLeq(level.volume, RInt(SetMax(volumes)))

\* C25: every cluster has at least one member and member indices within the
\* series, its total decay weight is strictly positive (the fallback to
\* the mean volume of the series is never taken), and its weighted volume is
\* sum(volume_i * decay_i) / sum(decay_i), between the smallest and the
\* largest member volume.
C25_WeightedVolume ==
    probe.fn = "cluster_prices_dbscan" =>
        /\ Len(probe.levels) = Len(probe.groups)
        /\ \A g \in 1..Len(probe.groups) :
               \E k \in 1..Len(probe.levels) :
                   /\ probe.levels[k].price = cluster_centroid(probe.groups[g])
                   /\ WeightedVolumeOf(probe.groups[g], probe.levels[k], probe.total_length)

\* C25 witness: a cluster of members with different volumes and different
\* decay weights, whose weighted volume is strictly between the smallest and
\* the largest member volume and is not their plain mean
C25_Witness ==
    /\ probe.fn = "cluster_prices_dbscan"
    /\ \E g \in 1..Len(probe.groups) : \E k \in 1..Len(probe.levels) :
           LET cluster == probe.groups[g]
               volumes == {cluster[i].volume : i \in 1..Len(cluster)}
           IN  /\ Len(cluster) >= 3
               /\ probe.levels[k].price = cluster_centroid(cluster)
               /\ RLess(RInt(SetMin(volumes)), probe.levels[k].volume)
               /\ RLess(probe.levels[k].volume, RInt(SetMax(volumes)))
               /\ probe.levels[k].volume #
                      Rat(SumSeq([i \in 1..Len(cluster) |-> cluster[i].volume]), Len(cluster))

\* the timestamps of a list of candles
Stamps(candles) == {candles[i].timestamp : i \in 1..Len(candles)}

\* C26: whatever the two fetched batches contain (overlapping, identical, out
\* of order, an empty second batch), the frame returned has strictly
\* increasing timestamps, so no timestamp twice, holds every timestamp of
\* either batch, and for a timestamp of both batches holds the candle of the
\* first, most recent batch.
C26_MergedFrameOrdered ==
    (fetch.returned /\ fetch.error = "none") =>
        /\ \A k \in 1..(Len(fetch.result) - 1) :
               fetch.result[k].timestamp < fetch.result[k + 1].timestamp
        /\ Stamps(fetch.result) = Stamps(fetch.batch1) \cup Stamps(fetch.batch2)
        /\ \A k \in 1..Len(fetch.result) :
               /\ \E i \in 1..Len(fetch.batch2 \o fetch.batch1) :
                      (fetch.batch2 \o fetch.batch1)[i] = fetch.result[k]
               /\ fetch.result[k].timestamp \in Stamps(fetch.batch1) =>
                      fetch.result[k].batch = 1

\* C26 witness: a frame returned from two batches out of order that share a
\* timestamp, the second holding a timestamp the first has not
C26_Witness ==
    /\ fetch.returned /\ fetch.error = "none"
    /\ Len(fetch.batch1) = MaxBatch /\ Len(fetch.batch2) = MaxBatch
    /\ fetch.batch1[1].timestamp > fetch.batch1[2].timestamp
    /\ Stamps(fetch.batch1) \cap Stamps(fetch.batch2) # {}
    /\ Stamps(fetch.batch2) \ Stamps(fetch.batch1) # {}

\* C28: once the client is constructed no failure of a fetch leaves
\* fetch_klines: an empty first batch, a rate-limit error, a bad symbol, any
\* other exception and the exhaustion of the three attempts all end in an
\* empty frame being returned; on every path the client is closed exactly
\* once.
C28_FailuresContained ==
    /\ ~fetch.escaped
    /\ fetch.pc \in {"idle", "batch1", "batch2", "merge", "except", "finally"} =>
           fetch.closed = 0
    /\ fetch.pc = "done" =>
           /\ fetch.closed = 1
           /\ fetch.returned
           /\ fetch.error # "none" => fetch.result = <<>>

\* C28 witness: a call that ended after the third attempt at the second batch
\* failed
C28_Witness ==
    /\ fetch.pc = "done"
    /\ fetch.error = "RetryError"
    /\ fetch.attempt = MaxAttempts
    /\ fetch.batch1 # <<>>

\* C27: at any moment at most ANALYSIS_CONCURRENCY analyze_symbol bodies
\* (fetch, analysis, database write) are in progress; the permit is released
\* on every exit path, so that the permits held and the permits free always
\* add up to ANALYSIS_CONCURRENCY; the tasks of a batch are created only
\* after every task of the batch before has finished.
C27_ConcurrencyBounded ==
    /\ Cardinality(InBody(coord.tasks)) <= ANALYSIS_CONCURRENCY
    /\ coord.permits >= 0
    /\ coord.permits + Cardinality(InBody(coord.tasks)) = ANALYSIS_CONCURRENCY
    /\ coord.carried = 0

\* C27 witness: in the second batch every permit is taken, a task waits, and
\* tasks before have left the body on an empty frame, an exception and a
\* database write
C27_Witness ==
    /\ coord.batch = 2
    /\ coord.permits = 0
    /\ \E t \in 1..Len(coord.tasks) : coord.tasks[t].pc = "pending"
    /\ coord.stats.failed >= 2
    /\ coord.stats.success >= 1

\* C29: total = success + failed and len(errors) = failed in every state;
\* every task that has finished has recorded exactly one outcome and no task
\* more than one; when the run has ended total is the number of tasks
\* launched; a session opened by a task is closed when the task has finished.
C29_StatsConsistent ==
    /\ coord.stats.total = coord.stats.success + coord.stats.failed
    /\ coord.stats.errors = coord.stats.failed
    /\ \A t \in 1..Len(coord.tasks) :
           /\ coord.tasks[t].outcomes <= 1
           /\ coord.tasks[t].pc \in {"closing", "done"} <=> coord.tasks[t].outcomes = 1
           /\ coord.tasks[t].pc = "done" => coord.tasks[t].session \in {"none", "closed"}
           /\ coord.tasks[t].session = "open" <=> coord.tasks[t].pc \in {"writing", "closing"}
    /\ coord.pc = "finished" => coord.stats.total = coord.launched

\* C29 witness: a run ended after both batches with successes and failures,
\* one of its tasks having finished without ever opening a session and one
\* with its session closed
C29_Witness ==
    /\ coord.pc = "finished"
    /\ coord.launched = NumTasks
    /\ coord.stats.success > 0 /\ coord.stats.failed > 0
    /\ \E t \in 1..Len(coord.tasks) : coord.tasks[t].session = "none"
    /\ \E t \in 1..Len(coord.tasks) : coord.tasks[t].session = "closed"

\* C30: at most one run of run_market_analysis is in progress at any time:
\* the startup run awaited by lifespan never overlaps a run fired by the
\* interval job, and two interval firings never overlap each other.
C30_SingleRun == RunsInProgress(sched) <= 1

====
